---- MODULE Spec2Model ----
(***************************************************************************)
(* Model of the anomaly classifier and consumer loop of                    *)
(* consume_and_anomaly_update_dynamodb, of the scheduler of                *)
(* aws_iot_sensor_simulator and of the publisher and command callback of   *)
(* publisher_simulator.                                                    *)
(*                                                                         *)
(* Numbers are fixed-point integers counted in thousandths: the Decimal    *)
(* 0.055 is 55, 85 is 85000.  Strings that the code upper-cases, lower-    *)
(* cases or searches are sequences of one-character strings.               *)
(***************************************************************************)
EXTENDS Integers, Sequences, FiniteSets, TLC

VARIABLES readings, verdict, put, pc, consumer, sim, pub, models, mongo

vars == <<readings, verdict, put, pc, consumer, sim, pub, models, mongo>>

(***************************************************************************)
(* JSON / Python values.  t is the type tag, n the number (thousandths),   *)
(* s the characters of a string, d the mapping of a dict.                  *)
(***************************************************************************)
None == [t |-> "null", n |-> 0, s |-> <<>>]
Num(n) == [t |-> "num", n |-> n, s |-> <<>>]
NaN == [t |-> "nan", n |-> 0, s |-> <<>>]
Str(s) == [t |-> "str", n |-> 0, s |-> s]
Bool(b) == [t |-> "bool", n |-> IF b THEN 1 ELSE 0, s |-> <<>>]
EmptyDict == [k \in {} |-> None]
Dict(f) == [t |-> "dict", n |-> 0, s |-> <<>>, d |-> f]

\* dict.get(key) and dict.get(key, default)
GetOr(dict, key, default) == IF key \in DOMAIN dict THEN dict[key] ELSE default
Get(dict, key) == GetOr(dict, key, None)

(***************************************************************************)
(* Strings.                                                                *)
(***************************************************************************)
UpperMap == [a |-> "A", b |-> "B", c |-> "C", d |-> "D", e |-> "E", f |-> "F",
             g |-> "G", h |-> "H", i |-> "I", j |-> "J", k |-> "K", l |-> "L",
             m |-> "M", n |-> "N", o |-> "O", p |-> "P", q |-> "Q", r |-> "R",
             s |-> "S", t |-> "T", u |-> "U", v |-> "V", w |-> "W", x |-> "X",
             y |-> "Y", z |-> "Z"]

LowerMap == [A |-> "a", B |-> "b", C |-> "c", D |-> "d", E |-> "e", F |-> "f",
             G |-> "g", H |-> "h", I |-> "i", J |-> "j", K |-> "k", L |-> "l",
             M |-> "m", N |-> "n", O |-> "o", P |-> "p", Q |-> "q", R |-> "r",
             S |-> "s", T |-> "t", U |-> "u", V |-> "v", W |-> "w", X |-> "x",
             Y |-> "y", Z |-> "z"]

\* str.upper()
upper(s) == [i \in DOMAIN s |-> IF s[i] \in DOMAIN UpperMap THEN UpperMap[s[i]] ELSE s[i]]

\* str.lower()
lower(s) == [i \in DOMAIN s |-> IF s[i] \in DOMAIN LowerMap THEN LowerMap[s[i]] ELSE s[i]]

\* sub in s
Contains(sub, s) ==
    \E i \in 1..(Len(s) - Len(sub) + 1) : SubSeq(s, i, i + Len(sub) - 1) = sub

\* str(x), for the values a sensor, datatype or fault_state key carries here:
\* a string is itself, None prints as "None".
py_str(x) ==
    CASE x.t = "str" -> x.s
      [] x.t = "null" -> <<"N", "o", "n", "e">>

S_MPU6050 == <<"M", "P", "U", "6", "0", "5", "0">>
S_DS18B20 == <<"D", "S", "1", "8", "B", "2", "0">>
S_SCT_013 == <<"S", "C", "T", "-", "0", "1", "3">>
S_SCT013 == <<"S", "C", "T", "0", "1", "3">>
S_INMP441 == <<"I", "N", "M", "P", "4", "4", "1">>
S_ds18b20 == <<"d", "s", "1", "8", "b", "2", "0">>
S_temp == <<"t", "e", "m", "p">>
S_current == <<"c", "u", "r", "r", "e", "n", "t">>
S_amps == <<"a", "m", "p", "s">>
S_sound == <<"s", "o", "u", "n", "d">>
S_noise == <<"n", "o", "i", "s", "e">>
S_normal == <<"n", "o", "r", "m", "a", "l">>

(***************************************************************************)
(* Decimal(str(x)) for a string x: an optional sign, digits, and at most   *)
(* three fraction digits give a number; "NaN" in any letter case gives the *)
(* Decimal NaN; any other text raises, which to_decimal turns into None.   *)
(***************************************************************************)
DigitVal == ("0" :> 0) @@ ("1" :> 1) @@ ("2" :> 2) @@ ("3" :> 3) @@ ("4" :> 4) @@
            ("5" :> 5) @@ ("6" :> 6) @@ ("7" :> 7) @@ ("8" :> 8) @@ ("9" :> 9)

IsDigits(s) == Len(s) > 0 /\ \A i \in DOMAIN s : s[i] \in DOMAIN DigitVal

RECURSIVE DigitsValue(_)
DigitsValue(s) ==
    IF s = <<>> THEN 0
    ELSE 10 * DigitsValue(SubSeq(s, 1, Len(s) - 1)) + DigitVal[s[Len(s)]]

DotAt(s) == IF \E i \in DOMAIN s : s[i] = "."
            THEN CHOOSE i \in DOMAIN s : s[i] = "."
            ELSE 0

Pow10(k) == CASE k = 0 -> 1 [] k = 1 -> 10 [] k = 2 -> 100 [] k = 3 -> 1000

DecimalOfStr(s) ==
    LET signed == Len(s) > 0 /\ s[1] \in {"+", "-"}
        body == IF signed THEN Tail(s) ELSE s
        sign == IF signed /\ s[1] = "-" THEN -1 ELSE 1
        dot == DotAt(body)
        whole == IF dot = 0 THEN body ELSE SubSeq(body, 1, dot - 1)
        frac == IF dot = 0 THEN <<>> ELSE SubSeq(body, dot + 1, Len(body))
    IN  IF upper(body) = <<"N", "A", "N">> THEN NaN
        ELSE IF dot = 0 /\ IsDigits(whole) THEN Num(sign * 1000 * DigitsValue(whole))
        ELSE IF dot > 0 /\ IsDigits(whole) /\ IsDigits(frac) /\ Len(frac) <= 3
             THEN Num(sign * (1000 * DigitsValue(whole)
                              + DigitsValue(frac) * Pow10(3 - Len(frac))))
        ELSE None

\* A mutant of to_decimal: a value that does not convert becomes 0.
to_decimal_default_zero(x) ==
    CASE x.t = "null" -> Num(0)
      [] x.t = "num" -> x
      [] x.t = "nan" -> x
      [] x.t = "str" -> IF DecimalOfStr(x.s) = None THEN Num(0) ELSE DecimalOfStr(x.s)
      [] OTHER -> Num(0)

\* to_decimal: None stays None; a Decimal (every JSON float, parse_float=Decimal)
\* is returned as is and a JSON int converts exactly; the float nan that the JSON
\* literal NaN parses to becomes Decimal('NaN'); a bool, dict or list raises in
\* Decimal(str(x)) and becomes None.
to_decimal(x) ==
    CASE x.t = "null" -> None
      [] x.t = "num" -> x
      [] x.t = "nan" -> x
      [] x.t = "str" -> DecimalOfStr(x.s)
      [] OTHER -> None

\* bool(x) of a to_decimal result: None and a zero Decimal are falsy, NaN is not.
Truthy(x) == ~(x.t = "null") /\ ~(x.t = "num" /\ x.n = 0)

\* a or b
PyOr(a, b) == IF Truthy(a) THEN a ELSE b

\* get_data_dict
get_data_dict(r) ==
    LET d == Get(r, "data")
    IN  IF d.t = "dict" THEN d.d ELSE EmptyDict

(***************************************************************************)
(* Thresholds (thousandths).                                               *)
(***************************************************************************)
TH == [VIB_RMS_G_HIGH |-> 55,
       HEALTH_SCORE_LOW |-> 78000,
       TEMP_C_LOW |-> 10000,
       TEMP_C_HIGH |-> 70000,
       CURRENT_A_LOW |-> 200,
       CURRENT_A_HIGH |-> 15000,
       SOUND_RMS_HIGH |-> 600,
       SOUND_DB_HIGH |-> 85000]

(***************************************************************************)
(* detect_anomaly.  A verdict is the returned tuple; raised marks the      *)
(* decimal.InvalidOperation that an ordering comparison with a Decimal NaN *)
(* signals, which detect_anomaly does not catch.                           *)
(***************************************************************************)
Verdict(is_anomaly, anomaly_type, reason, metrics) ==
    [raised |-> FALSE, is_anomaly |-> is_anomaly, anomaly_type |-> anomaly_type,
     reason |-> reason, metrics |-> metrics]

Raised ==
    [raised |-> TRUE, is_anomaly |-> FALSE, anomaly_type |-> "InvalidOperation",
     reason |-> <<>>, metrics |-> EmptyDict]

Normal(metrics) == Verdict(FALSE, "NORMAL", <<"within_threshold">>, metrics)

\* The f-string "<field>=<value> <op> <bound>".
Reason(field, value, op, bound) == <<field, value, op, bound>>

\* x is not None
NotNone(x) == x.t # "null"

\* A mutant of the MPU6050 rules: the health rule tried first.
mpu6050_rules_health_first(r, sensor, data) ==
    LET vib == to_decimal(Get(data, "vibration_rms_g"))
        health == to_decimal(Get(data, "health_score"))
        fault_state == py_str(GetOr(data, "fault_state", Str(S_normal)))
        metrics == [sensor |-> Str(sensor), rpm |-> to_decimal(Get(r, "rpm")),
                    vibration_rms_g |-> vib, health_score |-> health,
                    fault_state |-> Str(fault_state)]
    IN  IF NotNone(health) /\ health.t = "nan" THEN Raised
        ELSE IF NotNone(health) /\ health.n <= TH.HEALTH_SCORE_LOW
        THEN Verdict(TRUE, "MPU6050_LOW_HEALTH",
                     Reason("health_score", health, "<=", TH.HEALTH_SCORE_LOW), metrics)
        ELSE IF NotNone(vib) /\ vib.t = "nan" THEN Raised
        ELSE IF NotNone(vib) /\ vib.n >= TH.VIB_RMS_G_HIGH
        THEN Verdict(TRUE, "MPU6050_HIGH_VIBRATION",
                     Reason("vibration_rms_g", vib, ">=", TH.VIB_RMS_G_HIGH), metrics)
        ELSE Normal(metrics)

mpu6050_rules(r, sensor, data) ==
    LET vib == to_decimal(Get(data, "vibration_rms_g"))
        health == to_decimal(Get(data, "health_score"))
        fault_state == py_str(GetOr(data, "fault_state", Str(S_normal)))
        metrics == [sensor |-> Str(sensor), rpm |-> to_decimal(Get(r, "rpm")),
                    vibration_rms_g |-> vib, health_score |-> health,
                    fault_state |-> Str(fault_state)]
    IN  IF NotNone(vib) /\ vib.t = "nan" THEN Raised
        ELSE IF NotNone(vib) /\ vib.n >= TH.VIB_RMS_G_HIGH
        THEN Verdict(TRUE, "MPU6050_HIGH_VIBRATION",
                     Reason("vibration_rms_g", vib, ">=", TH.VIB_RMS_G_HIGH), metrics)
        ELSE IF NotNone(health) /\ health.t = "nan" THEN Raised
        ELSE IF NotNone(health) /\ health.n <= TH.HEALTH_SCORE_LOW
        THEN Verdict(TRUE, "MPU6050_LOW_HEALTH",
                     Reason("health_score", health, "<=", TH.HEALTH_SCORE_LOW), metrics)
        ELSE Normal(metrics)

\* The temperature fallback chain.
resolve_temp(r, data) ==
    PyOr(to_decimal(Get(r, "temperature_c")),
    PyOr(to_decimal(Get(data, "temperature_c")),
    PyOr(to_decimal(Get(r, "temp_c")),
    PyOr(to_decimal(Get(data, "temp_c")),
    PyOr(to_decimal(Get(r, "value")),
         to_decimal(Get(data, "value")))))))

\* A mutant of the DS18B20 rules: the bounds themselves trigger.
ds18b20_rules_inclusive(r, data) ==
    LET temp == resolve_temp(r, data)
        metrics == [sensor |-> Str(S_DS18B20), temperature_c |-> temp]
    IN  IF NotNone(temp) /\ temp.t = "nan" THEN Raised
        ELSE IF NotNone(temp) /\ temp.n <= TH.TEMP_C_LOW
        THEN Verdict(TRUE, "DS18B20_LOW_TEMP",
                     Reason("temperature_c", temp, "<", TH.TEMP_C_LOW), metrics)
        ELSE IF NotNone(temp) /\ temp.n >= TH.TEMP_C_HIGH
        THEN Verdict(TRUE, "DS18B20_HIGH_TEMP",
                     Reason("temperature_c", temp, ">", TH.TEMP_C_HIGH), metrics)
        ELSE Normal(metrics)

ds18b20_rules(r, data) ==
    LET temp == resolve_temp(r, data)
        metrics == [sensor |-> Str(S_DS18B20), temperature_c |-> temp]
    IN  IF NotNone(temp) /\ temp.t = "nan" THEN Raised
        ELSE IF NotNone(temp) /\ temp.n < TH.TEMP_C_LOW
        THEN Verdict(TRUE, "DS18B20_LOW_TEMP",
                     Reason("temperature_c", temp, "<", TH.TEMP_C_LOW), metrics)
        ELSE IF NotNone(temp) /\ temp.n > TH.TEMP_C_HIGH
        THEN Verdict(TRUE, "DS18B20_HIGH_TEMP",
                     Reason("temperature_c", temp, ">", TH.TEMP_C_HIGH), metrics)
        ELSE Normal(metrics)

\* The current fallback chain.
resolve_current(r, data) ==
    PyOr(to_decimal(Get(r, "current_a")),
    PyOr(to_decimal(Get(data, "current_a")),
    PyOr(to_decimal(Get(data, "current")),
    PyOr(to_decimal(Get(data, "amps")),
    PyOr(to_decimal(Get(r, "value")),
         to_decimal(Get(data, "value")))))))

\* A mutant of the SCT-013 rules: the low bound is not checked.
sct013_rules_no_low(r, data) ==
    LET cur == resolve_current(r, data)
        metrics == [sensor |-> Str(S_SCT_013), current_a |-> cur]
    IN  IF NotNone(cur) /\ cur.t = "nan" THEN Raised
        ELSE IF NotNone(cur) /\ cur.n > TH.CURRENT_A_HIGH
        THEN Verdict(TRUE, "SCT013_HIGH_CURRENT",
                     Reason("current_a", cur, ">", TH.CURRENT_A_HIGH), metrics)
        ELSE Normal(metrics)

sct013_rules(r, data) ==
    LET cur == resolve_current(r, data)
        metrics == [sensor |-> Str(S_SCT_013), current_a |-> cur]
    IN  IF NotNone(cur) /\ cur.t = "nan" THEN Raised
        ELSE IF NotNone(cur) /\ cur.n < TH.CURRENT_A_LOW
        THEN Verdict(TRUE, "SCT013_LOW_CURRENT",
                     Reason("current_a", cur, "<", TH.CURRENT_A_LOW), metrics)
        ELSE IF NotNone(cur) /\ cur.n > TH.CURRENT_A_HIGH
        THEN Verdict(TRUE, "SCT013_HIGH_CURRENT",
                     Reason("current_a", cur, ">", TH.CURRENT_A_HIGH), metrics)
        ELSE Normal(metrics)

\* The two acoustic fallback chains.
resolve_sound_rms(r, data) ==
    PyOr(to_decimal(Get(r, "sound_rms")),
    PyOr(to_decimal(Get(data, "sound_rms")),
    PyOr(to_decimal(Get(r, "rms")),
    PyOr(to_decimal(Get(data, "rms")),
    PyOr(to_decimal(Get(r, "value")),
         to_decimal(Get(data, "value")))))))

resolve_sound_db(r, data) ==
    PyOr(to_decimal(Get(r, "sound_db")),
    PyOr(to_decimal(Get(data, "sound_db")),
    PyOr(to_decimal(Get(r, "noise_db")),
         to_decimal(Get(data, "noise_db")))))

\* A mutant of the INMP441 rules: the amplitude rule tried first.
inmp441_rules_rms_first(r, data) ==
    LET sound_rms == resolve_sound_rms(r, data)
        sound_db == resolve_sound_db(r, data)
        metrics == [sensor |-> Str(S_INMP441), sound_rms |-> sound_rms,
                    sound_db |-> sound_db]
    IN  IF NotNone(sound_rms) /\ sound_rms.t = "nan" THEN Raised
        ELSE IF NotNone(sound_rms) /\ sound_rms.n >= TH.SOUND_RMS_HIGH
        THEN Verdict(TRUE, "INMP441_HIGH_RMS",
                     Reason("sound_rms", sound_rms, ">=", TH.SOUND_RMS_HIGH), metrics)
        ELSE IF NotNone(sound_db) /\ sound_db.t = "nan" THEN Raised
        ELSE IF NotNone(sound_db) /\ sound_db.n >= TH.SOUND_DB_HIGH
        THEN Verdict(TRUE, "INMP441_HIGH_DB",
                     Reason("sound_db", sound_db, ">=", TH.SOUND_DB_HIGH), metrics)
        ELSE Normal(metrics)

inmp441_rules(r, data) ==
    LET sound_rms == resolve_sound_rms(r, data)
        sound_db == resolve_sound_db(r, data)
        metrics == [sensor |-> Str(S_INMP441), sound_rms |-> sound_rms,
                    sound_db |-> sound_db]
    IN  IF NotNone(sound_db) /\ sound_db.t = "nan" THEN Raised
        ELSE IF NotNone(sound_db) /\ sound_db.n >= TH.SOUND_DB_HIGH
        THEN Verdict(TRUE, "INMP441_HIGH_DB",
                     Reason("sound_db", sound_db, ">=", TH.SOUND_DB_HIGH), metrics)
        ELSE IF NotNone(sound_rms) /\ sound_rms.t = "nan" THEN Raised
        ELSE IF NotNone(sound_rms) /\ sound_rms.n >= TH.SOUND_RMS_HIGH
        THEN Verdict(TRUE, "INMP441_HIGH_RMS",
                     Reason("sound_rms", sound_rms, ">=", TH.SOUND_RMS_HIGH), metrics)
        ELSE Normal(metrics)

\* The branch conditions, on the upper-cased sensor and the lower-cased datatype.
is_mpu6050(sensor) == sensor = S_MPU6050

is_ds18b20(sensor, datatype) ==
    sensor = S_DS18B20 \/ Contains(S_ds18b20, datatype) \/ Contains(S_temp, datatype)

is_sct013(sensor, datatype) ==
    sensor \in {S_SCT_013, S_SCT013} \/ Contains(S_current, datatype)
        \/ Contains(S_amps, datatype)

\* A mutant of is_inmp441: the last rule set as the catch-all.
is_inmp441_catch_all(sensor, datatype) == TRUE

is_inmp441(sensor, datatype) ==
    sensor = S_INMP441 \/ Contains(S_sound, datatype) \/ Contains(S_noise, datatype)

\* A mutant of sensor_of: the sensor string compared as it was sent.
sensor_of_case_sensitive(r) == py_str(GetOr(r, "sensor", Str(<<>>)))

sensor_of(r) == upper(py_str(GetOr(r, "sensor", Str(<<>>))))

datatype_of(r) == lower(py_str(GetOr(r, "datatype", Str(<<>>))))

\* Which rule set detect_anomaly applies to r.
branch_of(r) ==
    LET sensor == sensor_of(r)
        datatype == datatype_of(r)
    IN  IF is_mpu6050(sensor) THEN "MPU6050"
        ELSE IF is_ds18b20(sensor, datatype) THEN "DS18B20"
        ELSE IF is_sct013(sensor, datatype) THEN "SCT-013"
        ELSE IF is_inmp441(sensor, datatype) THEN "INMP441"
        ELSE "UNKNOWN_SENSOR"

detect_anomaly(r) ==
    LET sensor == sensor_of(r)
        data == get_data_dict(r)
        branch == branch_of(r)
    IN  CASE branch = "MPU6050" -> mpu6050_rules(r, sensor, data)
          [] branch = "DS18B20" -> ds18b20_rules(r, data)
          [] branch = "SCT-013" -> sct013_rules(r, data)
          [] branch = "INMP441" -> inmp441_rules(r, data)
          [] OTHER -> Verdict(FALSE, "UNKNOWN_SENSOR", <<"no_rules_for_sensor">>,
                              [sensor |-> Str(sensor)])

(***************************************************************************)
(* build_item and the consumer loop.                                       *)
(***************************************************************************)
S_unknown_device == <<"u", "n", "k", "n", "o", "w", "n", "_", "d", "e", "v", "i", "c", "e">>
S_now == <<"n", "o", "w">>

\* get_timestamp: the reading's timestamp_utc when truthy, else the clock.
get_timestamp(r) ==
    LET ts == Get(r, "timestamp_utc")
    IN  IF ts.t = "str" /\ ts.s # <<>> THEN ts ELSE Str(S_now)

\* get_device_id
get_device_id(r) == Str(py_str(GetOr(r, "device_id", Str(S_unknown_device))))

\* build_item: the keys, then every metric that is not None.
build_item(r, anomaly_type, reason, metrics) ==
    LET item == [device_id |-> get_device_id(r),
                 timestamp_utc |-> get_timestamp(r),
                 sensor |-> GetOr(metrics, "sensor",
                                  Str(py_str(GetOr(r, "sensor", Str(<<>>))))),
                 anomaly_type |-> anomaly_type,
                 anomaly_reason |-> reason,
                 payload |-> r]
        kept == {k \in DOMAIN metrics : NotNone(metrics[k])}
    IN  [k \in DOMAIN item \cup kept |-> IF k \in kept THEN metrics[k] ELSE item[k]]

NoVerdict ==
    [raised |-> FALSE, is_anomaly |-> FALSE, anomaly_type |-> "", reason |-> <<>>,
     metrics |-> EmptyDict]

NoPut == [called |-> FALSE, ok |-> FALSE, item |-> EmptyDict]

\* A mutant of persist: the item is written whatever the verdict is.
persist_always(r, v) ==
    {[called |-> TRUE, ok |-> ok,
      item |-> build_item(r, v.anomaly_type, v.reason, v.metrics)] : ok \in BOOLEAN}

\* "if is_anom:" of the loop: the possible outcomes of the write.  put_item is
\* called once, and its exception is caught and printed.
persist(r, v) ==
    IF v.is_anomaly
    THEN {[called |-> TRUE, ok |-> ok,
           item |-> build_item(r, v.anomaly_type, v.reason, v.metrics)] : ok \in BOOLEAN}
    ELSE {NoPut}

(***************************************************************************)
(* The simulators' payloads.                                               *)
(***************************************************************************)
S_device_01 == <<"d", "e", "v", "0", "1">>
S_ts == <<"2", "0", "2", "6">>
S_bearing_wear == <<"b", "e", "a", "r", "i", "n", "g", "_", "w", "e", "a", "r">>
S_bearing_noise == <<"b", "e", "a", "r", "i", "n", "g", "_", "n", "o", "i", "s", "e">>
S_grinding == <<"g", "r", "i", "n", "d", "i", "n", "g">>
S_overheating == <<"o", "v", "e", "r", "h", "e", "a", "t", "i", "n", "g">>

\* clamp(x, lo, hi)
clamp(x, lo, hi) == IF x < lo THEN lo ELSE IF x > hi THEN hi ELSE x

\* x / q rounded to the nearest integer (q > 0)
RoundDiv(x, q) == IF x >= 0 THEN (2 * x + q) \div (2 * q) ELSE -((2 * (-x) + q) \div (2 * q))

\* simulate_mpu6050's features for an RMS the noise draws produced:
\* health = clamp(100 - vib_rms * 400, 0, 100).
mpu_features(vib_rms) ==
    [vibration_rms_g |-> Num(vib_rms),
     health_score |-> Num(clamp(100000 - vib_rms * 400, 0, 100000))]

\* simulate_sound(vib_health, fault) with its two uniform draws made explicit:
\* noise in [-noise_db, noise_db] and jitter in [-0.05, 0.05].
simulate_sound(vib_health, fault, noise, jitter) ==
    LET base0 == 55000 + noise
        base_db == IF vib_health < 80000
                   THEN base0 + ((80000 - vib_health) * 15) \div 100
                   ELSE base0
        sound_db == CASE fault = S_bearing_noise -> base_db + 8000
                      [] fault = S_grinding -> base_db + 12000
                      [] OTHER -> base_db
        hf_ratio == CASE fault = S_bearing_noise -> 650 + jitter
                      [] fault = S_grinding -> 800 + jitter
                      [] OTHER -> 350 + jitter
        rms_amp == clamp(RoundDiv(sound_db - 40000, 60), 0, 1000)
    IN  [sound_db |-> Num(10 * RoundDiv(sound_db, 10)),
         rms_amp |-> Num(rms_amp),
         hf_energy_ratio |-> Num(clamp(hf_ratio, 0, 1000)),
         fault_state |-> Str(fault)]

\* The INMP441 payload of publishSensorTelemetry.
inmp441_payload(rpm_now, sound) ==
    [timestamp_utc |-> Str(S_ts), device_id |-> Str(S_device_01),
     sensor |-> Str(S_INMP441), rpm |-> Num(rpm_now), data |-> Dict(sound)]

\* The payload of publisher_simulator's main loop.
canonical_payload(rpm_now, mode, vib, temp, temp_fault, current, current_fault, sound) ==
    [ts_utc |-> Str(S_ts), device_id |-> Str(S_device_01), rpm |-> Num(rpm_now),
     mpu6050 |-> Dict([fault_state |-> Str(mode)] @@ vib),
     ds18b20 |-> Dict([temperature_c |-> Num(temp), fault_state |-> Str(temp_fault)]),
     sct013 |-> Dict([current_a |-> Num(current), fault_state |-> Str(current_fault)]),
     inmp441 |-> Dict(sound)]

(***************************************************************************)
(* Inputs: the records the consumer may fetch.                             *)
(***************************************************************************)
\* At most this many alias keys are filled in one generated reading.
MaxPresent == 2

S_abc == <<"a", "b", "c">>
S_UNKNOWN_DEVICE == <<"U", "N", "K", "N", "O", "W", "N", "_", "D", "E", "V", "I", "C", "E">>
S_mpu6050 == <<"m", "p", "u", "6", "0", "5", "0">>
S_Inmp441 == <<"I", "n", "m", "p", "4", "4", "1">>
S_temperature_c == <<"t", "e", "m", "p", "e", "r", "a", "t", "u", "r", "e", "_", "c">>
S_current_a == <<"c", "u", "r", "r", "e", "n", "t", "_", "a">>
S_Sound_dB == <<"S", "o", "u", "n", "d", "_", "d", "B">>
S_vibration == <<"v", "i", "b", "r", "a", "t", "i", "o", "n">>
S_0_06 == <<"0", ".", "0", "6">>
S_85 == <<"8", "5">>

\* A key that the reading does not carry.
Absent == [t |-> "absent", n |-> 0, s |-> <<>>]

NonNumeric == {Str(S_abc), NaN}

SlotValues(slot) ==
    CASE slot[2] \in {"temperature_c", "temp_c"} ->
            NonNumeric \cup {None, Num(-5000), Num(0), Num(10000), Num(40000),
                             Num(70000), Num(85000)}
      [] slot[2] \in {"current_a", "current", "amps"} ->
            NonNumeric \cup {Num(0), Num(50), Num(200), Num(5000), Num(15000), Num(16000)}
      [] slot[2] \in {"sound_rms", "rms", "rms_amp"} ->
            NonNumeric \cup {Num(0), Num(300), Num(600), Num(900)}
      [] slot[2] \in {"sound_db", "noise_db"} ->
            NonNumeric \cup {Num(0), Num(60000), Num(85000), Num(90000)}
      [] slot[2] = "value" ->
            NonNumeric \cup {Num(0), Num(50), Num(900), Num(85000), Str(S_85)}
      [] slot[2] = "vibration_rms_g" ->
            NonNumeric \cup {None, Num(0), Num(54), Num(55), Num(60), Str(S_0_06)}
      [] slot[2] = "health_score" ->
            NonNumeric \cup {Num(0), Num(78000), Num(79000), Num(95000), Bool(TRUE)}
      [] slot[2] = "fault_state" -> {Str(S_normal), Str(S_bearing_wear)}
      [] slot[2] = "rpm" -> {Num(1450000)}

VibSlots == {<<"data", "vibration_rms_g">>, <<"data", "health_score">>,
             <<"data", "fault_state">>, <<"top", "rpm">>}

TempSlots == {<<"top", "temperature_c">>, <<"data", "temperature_c">>,
              <<"top", "temp_c">>, <<"data", "temp_c">>,
              <<"top", "value">>, <<"data", "value">>}

CurrentSlots == {<<"top", "current_a">>, <<"data", "current_a">>,
                 <<"data", "current">>, <<"data", "amps">>,
                 <<"top", "value">>, <<"data", "value">>}

SoundSlots == {<<"top", "sound_rms">>, <<"data", "sound_rms">>,
               <<"top", "rms">>, <<"data", "rms">>,
               <<"top", "value">>, <<"data", "value">>,
               <<"top", "sound_db">>, <<"data", "sound_db">>,
               <<"top", "noise_db">>, <<"data", "noise_db">>,
               <<"data", "rms_amp">>}

\* The subsets of slots with at most max elements.
RECURSIVE SubsetsUpTo(_, _)
SubsetsUpTo(slots, max) ==
    IF max = 0 \/ slots = {} THEN {{}}
    ELSE LET sl == CHOOSE x \in slots : TRUE
         IN  SubsetsUpTo(slots \ {sl}, max)
             \cup {S \cup {sl} : S \in SubsetsUpTo(slots \ {sl}, max - 1)}

\* Every way to give each of the slots one of its values.
RECURSIVE Fill(_)
Fill(slots) ==
    IF slots = {} THEN {EmptyDict}
    ELSE LET sl == CHOOSE x \in slots : TRUE
         IN  {(sl :> v) @@ a : v \in SlotValues(sl), a \in Fill(slots \ {sl})}

\* Every way to fill at most max of the slots.
Assignments(slots, max) == UNION {Fill(S) : S \in SubsetsUpTo(slots, max)}

SD(sensor, datatype) == [sensor |-> sensor, datatype |-> datatype]

\* The sensor and datatype keys of the generated readings: every spelling with
\* one alias key, and per family of alias keys the spellings below.
AllSensorDatatype ==
    {SD(s, Absent) :
        s \in {Absent, None, Str(S_MPU6050), Str(S_mpu6050), Str(S_DS18B20),
               Str(S_SCT_013), Str(S_SCT013), Str(S_INMP441), Str(S_Inmp441),
               Str(S_UNKNOWN_DEVICE)}}
    \cup {SD(s, Str(d)) :
            s \in {Absent, Str(S_UNKNOWN_DEVICE), Str(S_MPU6050), Str(S_DS18B20),
                   Str(S_SCT_013), Str(S_INMP441)},
            d \in {S_temperature_c, S_current_a, S_Sound_dB, S_vibration}}

VibSensorDatatype ==
    {SD(Str(S_MPU6050), Absent), SD(Str(S_mpu6050), Absent),
     SD(Str(S_MPU6050), Str(S_temperature_c)), SD(Str(S_UNKNOWN_DEVICE), Absent),
     SD(Str(S_DS18B20), Absent)}

TempSensorDatatype ==
    {SD(Str(S_DS18B20), Absent), SD(Str(S_UNKNOWN_DEVICE), Absent),
     SD(Str(S_UNKNOWN_DEVICE), Str(S_temperature_c)),
     SD(Str(S_INMP441), Str(S_temperature_c)), SD(Str(S_SCT_013), Absent)}

CurrentSensorDatatype ==
    {SD(Str(S_SCT_013), Absent), SD(Str(S_SCT013), Absent),
     SD(Str(S_UNKNOWN_DEVICE), Absent), SD(Absent, Str(S_current_a)),
     SD(Str(S_SCT_013), Str(S_temperature_c))}

SoundSensorDatatype ==
    {SD(Str(S_INMP441), Absent), SD(Str(S_UNKNOWN_DEVICE), Absent),
     SD(Str(S_UNKNOWN_DEVICE), Str(S_Sound_dB)),
     SD(Str(S_INMP441), Str(S_temperature_c))}

\* The reading with the given sensor and datatype keys and alias keys; it has a
\* data dict exactly when a nested key is filled.
MkReading(sd, a) ==
    LET topKeys == {sl[2] : sl \in {sl \in DOMAIN a : sl[1] = "top"}}
        dataKeys == {sl[2] : sl \in {sl \in DOMAIN a : sl[1] = "data"}}
        keys == topKeys
                \cup (IF sd.sensor = Absent THEN {} ELSE {"sensor"})
                \cup (IF sd.datatype = Absent THEN {} ELSE {"datatype"})
                \cup (IF dataKeys = {} THEN {} ELSE {"data"})
    IN  [k \in keys |->
            CASE k = "sensor" -> sd.sensor
              [] k = "datatype" -> sd.datatype
              [] k = "data" -> Dict([j \in dataKeys |-> a[<<"data", j>>]])
              [] OTHER -> a[<<"top", k>>]]

AllSlots == VibSlots \cup TempSlots \cup CurrentSlots \cup SoundSlots

\* The families of generated readings: which sensor and datatype keys go with
\* which alias keys, and how many of those are filled at most.
Families ==
    {[sds |-> AllSensorDatatype, slots |-> AllSlots, max |-> 1],
     [sds |-> VibSensorDatatype, slots |-> VibSlots, max |-> MaxPresent + 1],
     [sds |-> TempSensorDatatype, slots |-> TempSlots, max |-> MaxPresent],
     [sds |-> CurrentSensorDatatype, slots |-> CurrentSlots, max |-> MaxPresent],
     [sds |-> SoundSensorDatatype, slots |-> SoundSlots, max |-> MaxPresent]}

\* r is one of the generated readings.
IsGeneratedReading(r) ==
    \E fam \in Families : \E sd \in fam.sds : \E S \in SubsetsUpTo(fam.slots, fam.max) :
        \E a \in Fill(S) : r = MkReading(sd, a)

\* What simulate_sound can return.
SimulatedSounds ==
    {simulate_sound(h, f, noise, jitter) :
        h \in {0, 40000, 100000},
        f \in {S_normal, S_bearing_noise, S_grinding},
        noise \in {-2000, 0, 2000},
        jitter \in {-50, 50}}

SimulatorReadings == {inmp441_payload(1450000, sound) : sound \in SimulatedSounds}

CanonicalPayloads ==
    {canonical_payload(1450000, mode, mpu_features(v), temp, tf, 5000, S_normal, sound) :
        mode \in {S_normal, S_bearing_wear},
        v \in {20, 60, 90},
        temp \in {40000, 90000},
        tf \in {S_normal, S_overheating},
        sound \in {simulate_sound(100000, S_normal, 0, 50)}}

\* r is a record the consumer may fetch.
IsRecord(r) ==
    \/ IsGeneratedReading(r)
    \/ r \in SimulatorReadings
    \/ r \in CanonicalPayloads

(***************************************************************************)
(* The consumer loop, followed for one fetched record.                     *)
(***************************************************************************)
\* The state of the parts that do not run in a specification.
ConsumerIdle == [pc |-> "idle"]
SimIdle == [pc |-> "idle"]
PubIdle == [pc |-> "idle"]
ModelsIdle == [pc |-> "idle"]
MongoIdle == [pc |-> "idle"]

Init ==
    /\ IsRecord(readings)
    /\ verdict = NoVerdict
    /\ put = NoPut
    /\ pc = "fetched"
    /\ consumer = ConsumerIdle
    /\ sim = SimIdle
    /\ pub = PubIdle
    /\ models = ModelsIdle
    /\ mongo = MongoIdle

\* The body of the loop over resp["Records"]: classify, and write the item when
\* the verdict is anomalous; an exception of put_item is caught, one of
\* detect_anomaly is not and ends the process.
Consume ==
    /\ pc = "fetched"
    /\ LET v == detect_anomaly(readings)
       IN  /\ verdict' = v
           /\ IF v.raised
              THEN pc' = "crashed" /\ put' = NoPut
              ELSE /\ pc' = "classified"
                   /\ put' \in persist(readings, v)
    /\ UNCHANGED <<readings, consumer, sim, pub, models, mongo>>

Next == Consume

Spec == Init /\ [][Next]_vars

(***************************************************************************)
(* Vocabulary of the properties.                                           *)
(***************************************************************************)
\* detect_anomaly returned a verdict for the fetched record.
Classified == pc = "classified"

\* detect_anomaly returned or raised.
Finished == pc # "fetched"

IsNum(x) == x.t = "num"

\* The value a reading carries in a slot: a top-level key or a key of its data.
ValueAt(r, slot) ==
    IF slot[1] = "top" THEN Get(r, slot[2]) ELSE Get(get_data_dict(r), slot[2])

TempChain == << <<"top", "temperature_c">>, <<"data", "temperature_c">>,
                <<"top", "temp_c">>, <<"data", "temp_c">>,
                <<"top", "value">>, <<"data", "value">> >>

CurrentChain == << <<"top", "current_a">>, <<"data", "current_a">>,
                   <<"data", "current">>, <<"data", "amps">>,
                   <<"top", "value">>, <<"data", "value">> >>

SoundRmsChain == << <<"top", "sound_rms">>, <<"data", "sound_rms">>,
                    <<"top", "rms">>, <<"data", "rms">>,
                    <<"top", "value">>, <<"data", "value">> >>

SoundDbChain == << <<"top", "sound_db">>, <<"data", "sound_db">>,
                   <<"top", "noise_db">>, <<"data", "noise_db">> >>

VibChain == << <<"data", "vibration_rms_g">> >>

HealthChain == << <<"data", "health_score">> >>

\* The value of the first alias of the chain that is present and converts;
\* None when there is none.
RECURSIVE FirstConvertible(_, _)
FirstConvertible(r, chain) ==
    IF chain = <<>> THEN None
    ELSE LET x == to_decimal(ValueAt(r, Head(chain)))
         IN  IF NotNone(x) THEN x ELSE FirstConvertible(r, Tail(chain))

\* A raw value that is no number: null, a bool, a dict, or text that is no numeral.
NotConvertible(x) ==
    \/ x.t \in {"null", "bool", "dict"}
    \/ x.t = "str" /\ DecimalOfStr(x.s) = None

\* No alias of the chain is present and convertible.
NoAliasConvertible(r, chain) ==
    \A i \in DOMAIN chain : NotConvertible(ValueAt(r, chain[i]))

KnownSensors == {S_MPU6050, S_DS18B20, S_SCT_013, S_SCT013, S_INMP441}

DatatypeKeywords == {S_ds18b20, S_temp, S_current, S_amps, S_sound, S_noise}

IsAnomaly(category) == verdict.is_anomaly /\ verdict.anomaly_type = category

IsNormal == ~verdict.is_anomaly /\ verdict.anomaly_type = "NORMAL"

(***************************************************************************)
(* C1.  Field resolution: in the rule set applied to the reading, each     *)
(* field is resolved to the first alias of its chain that is present and   *)
(* convertible, 0 and negative values included; a DS18B20 reading whose    *)
(* temperature_c is 0 is reported as a low temperature.                    *)
(***************************************************************************)
C1_FirstConvertibleAliasWins ==
    Classified =>
        /\ branch_of(readings) = "DS18B20" =>
              /\ verdict.metrics.temperature_c = FirstConvertible(readings, TempChain)
              /\ Get(readings, "temperature_c") = Num(0) => IsAnomaly("DS18B20_LOW_TEMP")
        /\ branch_of(readings) = "SCT-013" =>
              verdict.metrics.current_a = FirstConvertible(readings, CurrentChain)
        /\ branch_of(readings) = "INMP441" =>
              /\ verdict.metrics.sound_rms = FirstConvertible(readings, SoundRmsChain)
              /\ verdict.metrics.sound_db = FirstConvertible(readings, SoundDbChain)

FieldRules ==
    {[chain |-> VibChain, metric |-> "vibration_rms_g",
      categories |-> {"MPU6050_HIGH_VIBRATION"}],
     [chain |-> HealthChain, metric |-> "health_score",
      categories |-> {"MPU6050_LOW_HEALTH"}],
     [chain |-> TempChain, metric |-> "temperature_c",
      categories |-> {"DS18B20_LOW_TEMP", "DS18B20_HIGH_TEMP"}],
     [chain |-> CurrentChain, metric |-> "current_a",
      categories |-> {"SCT013_LOW_CURRENT", "SCT013_HIGH_CURRENT"}],
     [chain |-> SoundRmsChain, metric |-> "sound_rms",
      categories |-> {"INMP441_HIGH_RMS"}],
     [chain |-> SoundDbChain, metric |-> "sound_db",
      categories |-> {"INMP441_HIGH_DB"}]}

C3_UnresolvedFieldSkipsRules ==
    Finished =>
        /\ \A f \in FieldRules :
              NoAliasConvertible(readings, f.chain) =>
                  /\ verdict.anomaly_type \notin f.categories
                  /\ f.metric \in DOMAIN verdict.metrics =>
                        verdict.metrics[f.metric] = None
        /\ (/\ sensor_of(readings) \in KnownSensors
            /\ \A f \in FieldRules : NoAliasConvertible(readings, f.chain)) =>
              Classified /\ IsNormal

C3_Witness ==
    /\ Classified
    /\ sensor_of(readings) = S_SCT_013
    /\ branch_of(readings) = "SCT-013"
    /\ ValueAt(readings, <<"data", "current_a">>) = Str(S_abc)
    /\ NoAliasConvertible(readings, CurrentChain)
    /\ IsNormal
    /\ verdict.metrics.current_a = None

(***************************************************************************)
(* C4.  A reading evaluated under the INMP441 rules whose sound level      *)
(* resolves to SOUND_DB_HIGH or more is an INMP441_HIGH_DB anomaly,        *)
(* whatever its amplitude is; INMP441_HIGH_RMS is returned only when the   *)
(* dB rule did not fire; the verdict carries one category.                 *)
(***************************************************************************)
C4_HighDbFirst ==
    (Finished /\ branch_of(readings) = "INMP441") =>
        LET db == FirstConvertible(readings, SoundDbChain)
            fires == IsNum(db) /\ db.n >= TH.SOUND_DB_HIGH
        IN  /\ fires => Classified /\ IsAnomaly("INMP441_HIGH_DB")
            /\ verdict.anomaly_type = "INMP441_HIGH_RMS" => ~fires
            /\ Classified =>
                  verdict.anomaly_type \in {"INMP441_HIGH_DB", "INMP441_HIGH_RMS", "NORMAL"}

C4_Witness ==
    /\ Classified
    /\ sensor_of(readings) = S_INMP441
    /\ ValueAt(readings, <<"data", "sound_db">>) = Num(90000)
    /\ ValueAt(readings, <<"data", "sound_rms">>) = Num(900)
    /\ IsAnomaly("INMP441_HIGH_DB")

(***************************************************************************)
(* C5.  A reading evaluated under the INMP441 rules whose dB value is      *)
(* absent or below SOUND_DB_HIGH and whose rms_amp, the amplitude field    *)
(* simulate_sound emits, is SOUND_RMS_HIGH or more is an INMP441_HIGH_RMS  *)
(* anomaly.                                                                *)
(***************************************************************************)
C5_AmplitudeRuleOnRmsAmp ==
    (Classified /\ branch_of(readings) = "INMP441") =>
        LET db == FirstConvertible(readings, SoundDbChain)
            amp == to_decimal(ValueAt(readings, <<"data", "rms_amp">>))
        IN  (/\ db = None \/ (IsNum(db) /\ db.n < TH.SOUND_DB_HIGH)
             /\ IsNum(amp) /\ amp.n >= TH.SOUND_RMS_HIGH) =>
                IsAnomaly("INMP441_HIGH_RMS")

(***************************************************************************)
(* C6.  MPU6050 rules: MPU6050_HIGH_VIBRATION when vibration_rms_g is      *)
(* resolved and at least VIB_RMS_G_HIGH, also when health_score is low;    *)
(* otherwise MPU6050_LOW_HEALTH when health_score is resolved and at most  *)
(* HEALTH_SCORE_LOW; otherwise NORMAL.  The reason carries the observed    *)
(* value and the threshold, and is_anomaly, category and reason do not     *)
(* depend on the fault_state label.  The cases are those of the numeric    *)
(* comparisons: a field is unresolved, below or at-or-above its bound.     *)
(***************************************************************************)
\* The reading with its data.fault_state set to label.
WithFaultState(r, label) ==
    ("data" :> Dict(("fault_state" :> label) @@ get_data_dict(r))) @@ r

\* What a verdict decides: everything but the metrics.
Decision(v) == <<v.raised, v.is_anomaly, v.anomaly_type, v.reason>>

C6_VibrationRules ==
    (Finished /\ branch_of(readings) = "MPU6050") =>
        LET vib == FirstConvertible(readings, VibChain)
            health == FirstConvertible(readings, HealthChain)
            vibBelow == vib = None \/ (IsNum(vib) /\ vib.n < TH.VIB_RMS_G_HIGH)
        IN  /\ (IsNum(vib) /\ vib.n >= TH.VIB_RMS_G_HIGH) =>
                  /\ Classified /\ IsAnomaly("MPU6050_HIGH_VIBRATION")
                  /\ verdict.reason[2] = vib
                  /\ verdict.reason[4] = TH.VIB_RMS_G_HIGH
            /\ (vibBelow /\ IsNum(health) /\ health.n <= TH.HEALTH_SCORE_LOW) =>
                  /\ Classified /\ IsAnomaly("MPU6050_LOW_HEALTH")
                  /\ verdict.reason[2] = health
                  /\ verdict.reason[4] = TH.HEALTH_SCORE_LOW
            /\ (/\ vibBelow
                /\ health = None \/ (IsNum(health) /\ health.n > TH.HEALTH_SCORE_LOW)) =>
                  Classified /\ IsNormal
            /\ \A label \in {Str(S_normal), Str(S_bearing_wear), Str(S_grinding)} :
                  Decision(detect_anomaly(WithFaultState(readings, label)))
                      = Decision(verdict)

C6_Witness ==
    /\ Classified
    /\ sensor_of(readings) = S_MPU6050
    /\ ValueAt(readings, <<"data", "vibration_rms_g">>) = Num(60)
    /\ ValueAt(readings, <<"data", "health_score">>) = Num(0)
    /\ ValueAt(readings, <<"data", "fault_state">>) = Str(S_normal)
    /\ IsAnomaly("MPU6050_HIGH_VIBRATION")
    /\ verdict.reason = <<"vibration_rms_g", Num(60), ">=", 55>>

(***************************************************************************)
(* C7.  A reading evaluated under the DS18B20 rules with resolved          *)
(* temperature t is a DS18B20_LOW_TEMP anomaly iff t < TEMP_C_LOW, a       *)
(* DS18B20_HIGH_TEMP anomaly iff t > TEMP_C_HIGH, and NORMAL for every t   *)
(* from TEMP_C_LOW to TEMP_C_HIGH, both included.                          *)
(***************************************************************************)
C7_TemperatureRule ==
    (Finished /\ branch_of(readings) = "DS18B20") =>
        LET t == resolve_temp(readings, get_data_dict(readings))
        IN  IsNum(t) =>
              /\ Classified
              /\ IsAnomaly("DS18B20_LOW_TEMP") <=> t.n < TH.TEMP_C_LOW
              /\ IsAnomaly("DS18B20_HIGH_TEMP") <=> t.n > TH.TEMP_C_HIGH
              /\ (TH.TEMP_C_LOW <= t.n /\ t.n <= TH.TEMP_C_HIGH) => IsNormal

C7_Witness ==
    /\ Classified
    /\ sensor_of(readings) = S_DS18B20
    /\ ValueAt(readings, <<"top", "temperature_c">>) = Num(70000)
    /\ resolve_temp(readings, get_data_dict(readings)) = Num(70000)
    /\ IsNormal

(***************************************************************************)
(* C8.  A reading evaluated under the SCT-013 rules with resolved current  *)
(* c is a SCT013_LOW_CURRENT anomaly iff c < CURRENT_A_LOW, a              *)
(* SCT013_HIGH_CURRENT anomaly iff c > CURRENT_A_HIGH, and NORMAL          *)
(* otherwise; current_a = 0.05 is a low-current anomaly.                   *)
(***************************************************************************)
C8_CurrentRule ==
    (Finished /\ branch_of(readings) = "SCT-013") =>
        LET c == resolve_current(readings, get_data_dict(readings))
        IN  IsNum(c) =>
              /\ Classified
              /\ IsAnomaly("SCT013_LOW_CURRENT") <=> c.n < TH.CURRENT_A_LOW
              /\ IsAnomaly("SCT013_HIGH_CURRENT") <=> c.n > TH.CURRENT_A_HIGH
              /\ (TH.CURRENT_A_LOW <= c.n /\ c.n <= TH.CURRENT_A_HIGH) => IsNormal

C8_Witness ==
    /\ Classified
    /\ sensor_of(readings) = S_SCT_013
    /\ ValueAt(readings, <<"top", "current_a">>) = Num(50)
    /\ IsAnomaly("SCT013_LOW_CURRENT")

(***************************************************************************)
(* C9.  A reading evaluated under the DS18B20 rules without temperature_c  *)
(* and with temp_c = v, at top level or in data, has v compared with the   *)
(* temperature bounds and reported as metrics["temperature_c"].            *)
(***************************************************************************)
C9_TempCFallback ==
    (Finished /\ branch_of(readings) = "DS18B20") =>
        LET v == FirstConvertible(readings, << <<"top", "temp_c">>, <<"data", "temp_c">> >>)
        IN  (/\ "temperature_c" \notin DOMAIN readings
             /\ "temperature_c" \notin DOMAIN get_data_dict(readings)
             /\ IsNum(v)) =>
                /\ Classified
                /\ verdict.metrics.temperature_c = v
                /\ IsAnomaly("DS18B20_LOW_TEMP") <=> v.n < TH.TEMP_C_LOW
                /\ IsAnomaly("DS18B20_HIGH_TEMP") <=> v.n > TH.TEMP_C_HIGH

(***************************************************************************)
(* C10.  A payload of publisher_simulator's main loop whose                *)
(* ds18b20.temperature_c exceeds TEMP_C_HIGH, or whose                     *)
(* mpu6050.vibration_rms_g is at least VIB_RMS_G_HIGH, is classified as an *)
(* anomaly.                                                                *)
(***************************************************************************)
C10_CanonicalPayloadClassified ==
    (/\ Finished
     /\ readings \in CanonicalPayloads
     /\ \/ readings.ds18b20.d.temperature_c.n > TH.TEMP_C_HIGH
        \/ readings.mpu6050.d.vibration_rms_g.n >= TH.VIB_RMS_G_HIGH) =>
        Classified /\ verdict.is_anomaly

(***************************************************************************)
(* C11.  detect_anomaly returns a verdict for every reading dict, whatever *)
(* its fields hold: it never raises, and a field whose aliases are         *)
(* missing, null, of the wrong type, non-numeric text or NaN is reported   *)
(* as absent (None) in the metrics.                                        *)
(***************************************************************************)
\* The metric under which each rule set reports each of its chains.
MetricChains ==
    [x \in {"MPU6050", "DS18B20", "SCT-013", "INMP441", "UNKNOWN_SENSOR"} |->
        CASE x = "MPU6050" -> {<<"vibration_rms_g", VibChain>>, <<"health_score", HealthChain>>}
          [] x = "DS18B20" -> {<<"temperature_c", TempChain>>}
          [] x = "SCT-013" -> {<<"current_a", CurrentChain>>}
          [] x = "INMP441" -> {<<"sound_rms", SoundRmsChain>>, <<"sound_db", SoundDbChain>>}
          [] OTHER -> {}]

\* A raw value that resolves as absent: a key not carried, or one that is no
\* finite number.
Malformed(x) == NotConvertible(x) \/ x.t = "nan"

C11_TotalOverMalformedInput ==
    Finished =>
        /\ Classified
        /\ ~verdict.raised
        /\ \A mc \in MetricChains[branch_of(readings)] :
              (\A i \in DOMAIN mc[2] : Malformed(ValueAt(readings, mc[2][i])))
                  => verdict.metrics[mc[1]] = None

(***************************************************************************)
(* C15.  The verdict of detect_anomaly does not change when the letters of *)
(* the sensor string change case, nor when SCT-013 is spelled SCT013 or    *)
(* the reverse, the rest of the reading being the same.                    *)
(***************************************************************************)
\* The spellings of the same sensor: either letter case, and for the current
\* clamp either of its two names.
Spellings(s) ==
    LET names == IF upper(s) \in {S_SCT_013, S_SCT013} THEN {S_SCT_013, S_SCT013}
                 ELSE {s}
    IN  {upper(x) : x \in names} \cup {lower(x) : x \in names}

HasSensorString(r) == "sensor" \in DOMAIN r /\ r.sensor.t = "str"

C15_SensorSpellingInvariant ==
    (Finished /\ HasSensorString(readings)) =>
        \A s2 \in Spellings(readings.sensor.s) :
            detect_anomaly([readings EXCEPT !.sensor = Str(s2)]) = verdict

C15_Witness ==
    /\ Classified
    /\ HasSensorString(readings)
    /\ readings.sensor.s = S_SCT013
    /\ IsAnomaly("SCT013_LOW_CURRENT")
    /\ lower(S_SCT_013) \in Spellings(readings.sensor.s)
    /\ lower(S_SCT_013) # readings.sensor.s
    /\ detect_anomaly([readings EXCEPT !.sensor = Str(lower(S_SCT_013))]) = verdict

(***************************************************************************)
(* C16.  The metrics of a verdict hold exactly the fields that were        *)
(* resolved: a field that did not resolve is not a key of the metrics      *)
(* (neither with None nor with 0), and a field the reading does not carry  *)
(* is not reported with a default value.                                   *)
(***************************************************************************)
\* The reading carries the key of the slot.
HasKey(r, slot) ==
    IF slot[1] = "top" THEN slot[2] \in DOMAIN r ELSE slot[2] \in DOMAIN get_data_dict(r)

\* The fields detect_anomaly copies into the metrics without a fallback chain.
CopiedMetrics ==
    [x \in {"MPU6050", "DS18B20", "SCT-013", "INMP441", "UNKNOWN_SENSOR"} |->
        IF x = "MPU6050" THEN {<<"rpm", <<"top", "rpm">> >>,
                               <<"fault_state", <<"data", "fault_state">> >>}
        ELSE {}]

C16_MetricsOnlyResolvedFields ==
    Classified =>
        /\ \A k \in DOMAIN verdict.metrics : NotNone(verdict.metrics[k])
        /\ \A cm \in CopiedMetrics[branch_of(readings)] :
              cm[1] \in DOMAIN verdict.metrics => HasKey(readings, cm[2])

(***************************************************************************)
(* The consumer loop over batches of records.                              *)
(***************************************************************************)
\* At most this many records in one response of get_records.
MaxBatch == 2
\* At most this many responses are fetched.
MaxBatches == 2

\* The bytes of a record: text that is no JSON, JSON that is no object, or
\* the JSON of a reading.
InvalidBytes == [kind |-> "invalid", value |-> EmptyDict]
ListBytes == [kind |-> "list", value |-> EmptyDict]
ObjectBytes(r) == [kind |-> "object", value |-> r]

\* parse_record: json.loads raises on text that is no JSON.
parse_record(data_bytes) ==
    [raised |-> data_bytes.kind = "invalid", value |-> data_bytes.value,
     is_dict |-> data_bytes.kind = "object"]

\* r.get of a parsed value that is no dict raises AttributeError.
RaisedAttributeError ==
    [raised |-> TRUE, is_anomaly |-> FALSE, anomaly_type |-> "AttributeError",
     reason |-> <<>>, metrics |-> EmptyDict]

RaisedJSONDecodeError ==
    [raised |-> TRUE, is_anomaly |-> FALSE, anomaly_type |-> "JSONDecodeError",
     reason |-> <<>>, metrics |-> EmptyDict]

MpuReading(vib, health) ==
    [sensor |-> Str(S_MPU6050), device_id |-> Str(S_device_01),
     data |-> Dict([vibration_rms_g |-> vib, health_score |-> health])]

\* The records a response may hold.
LoopPayloads ==
    {InvalidBytes, ListBytes,
     ObjectBytes(MpuReading(Num(20), Num(92000))),
     ObjectBytes(MpuReading(Num(60), Num(76000))),
     ObjectBytes(MpuReading(NaN, Num(50000))),
     ObjectBytes([sensor |-> Str(S_UNKNOWN_DEVICE), value |-> Num(85000)])}

\* The sequences over S of length at most n.
RECURSIVE SeqsUpTo(_, _)
SeqsUpTo(S, n) ==
    IF n = 0 THEN {<<>>}
    ELSE LET shorter == SeqsUpTo(S, n - 1)
         IN  shorter \cup {Append(q, x) : q \in {q \in shorter : Len(q) = n - 1}, x \in S}

\* What the loop did with one record: its bytes, the verdict or exception, the
\* number of put_item calls, and whether the same bytes had been handled
\* before.  consumer.log is the set of these over the records handled.
LogEntry(data_bytes, v, p) ==
    [payload |-> data_bytes, verdict |-> v, puts |-> IF p.called THEN 1 ELSE 0,
     again |-> \E e \in consumer.log : e.payload = data_bytes]

LoopInit ==
    /\ consumer = [pc |-> "get_records", batch |-> <<>>, i |-> 1, batches |-> 0,
                   log |-> {}]
    /\ readings = EmptyDict
    /\ verdict = NoVerdict
    /\ put = NoPut
    /\ pc = "loop"
    /\ sim = SimIdle
    /\ pub = PubIdle
    /\ models = ModelsIdle
    /\ mongo = MongoIdle

\* resp = kinesis.get_records(...): the next batch.
GetRecords ==
    /\ consumer.pc = "get_records"
    /\ consumer.batches < MaxBatches
    /\ \E batch \in SeqsUpTo(LoopPayloads, MaxBatch) :
          consumer' = [consumer EXCEPT !.pc = "for", !.batch = batch, !.i = 1,
                                       !.batches = @ + 1]
    /\ UNCHANGED <<readings, verdict, put, pc, sim, pub, models, mongo>>

\* A mutant of HandleRecord: a classifier with memory, which reports a payload
\* it has classified before as NORMAL.
HandleRecord_with_memory ==
    /\ consumer.pc = "for"
    /\ consumer.i <= Len(consumer.batch)
    /\ LET data_bytes == consumer.batch[consumer.i]
           parsed == parse_record(data_bytes)
           seen == \E e \in consumer.log : e.payload = data_bytes
           v == IF parsed.raised THEN RaisedJSONDecodeError
                ELSE IF ~parsed.is_dict THEN RaisedAttributeError
                ELSE IF seen THEN Normal(EmptyDict)
                ELSE detect_anomaly(parsed.value)
       IN  /\ readings' = IF parsed.raised THEN readings ELSE parsed.value
           /\ verdict' = IF v.raised THEN verdict ELSE v
           /\ IF v.raised
              THEN /\ put' = put
                   /\ consumer' = [consumer EXCEPT !.pc = "crashed",
                                      !.log = @ \cup {LogEntry(data_bytes, v, NoPut)}]
              ELSE \E p \in persist(parsed.value, v) :
                      /\ put' = IF p.called THEN p ELSE put
                      /\ consumer' = [consumer EXCEPT !.i = @ + 1,
                                         !.log = @ \cup {LogEntry(data_bytes, v, p)}]
    /\ UNCHANGED <<pc, sim, pub, models, mongo>>

\* The body of "for rec in resp.get('Records', [])" for one record: parse,
\* classify, and write the item of an anomalous verdict.  An exception of
\* parse_record or detect_anomaly is not caught and ends the process.
HandleRecord ==
    /\ consumer.pc = "for"
    /\ consumer.i <= Len(consumer.batch)
    /\ LET data_bytes == consumer.batch[consumer.i]
           parsed == parse_record(data_bytes)
           v == IF parsed.raised THEN RaisedJSONDecodeError
                ELSE IF ~parsed.is_dict THEN RaisedAttributeError
                ELSE detect_anomaly(parsed.value)
       IN  /\ readings' = IF parsed.raised THEN readings ELSE parsed.value
           /\ verdict' = IF v.raised THEN verdict ELSE v
           /\ IF v.raised
              THEN /\ put' = put
                   /\ consumer' = [consumer EXCEPT !.pc = "crashed",
                                      !.log = @ \cup {LogEntry(data_bytes, v, NoPut)}]
              ELSE \E p \in persist(parsed.value, v) :
                      /\ put' = IF p.called THEN p ELSE put
                      /\ consumer' = [consumer EXCEPT !.i = @ + 1,
                                         !.log = @ \cup {LogEntry(data_bytes, v, p)}]
    /\ UNCHANGED <<pc, sim, pub, models, mongo>>

\* The batch is exhausted: time.sleep(0.2), then the next get_records.
Sleep ==
    /\ consumer.pc = "for"
    /\ consumer.i > Len(consumer.batch)
    /\ consumer' = [consumer EXCEPT !.pc = "get_records"]
    /\ UNCHANGED <<readings, verdict, put, pc, sim, pub, models, mongo>>

LoopNext == GetRecords \/ HandleRecord \/ Sleep

LoopSpec == LoopInit /\ [][LoopNext]_vars

(***************************************************************************)
(* C12.  Malformed input never aborts the consumer loop: after a record    *)
(* that cannot be parsed or whose classification fails, the loop is still  *)
(* running and goes on to the next record.                                 *)
(***************************************************************************)
C12_LoopNeverAborts ==
    /\ consumer.pc # "crashed"
    /\ \A e \in consumer.log : ~e.verdict.raised

(***************************************************************************)
(* C13.  put_item is called for a record only when detect_anomaly returned *)
(* is_anomaly = true for it, and at most once; nothing is written for a    *)
(* NORMAL or UNKNOWN_SENSOR verdict.                                       *)
(***************************************************************************)
C13_PersistIfAnomalous ==
    \A e \in consumer.log :
        /\ e.puts <= 1
        /\ e.puts = 1 => (~e.verdict.raised /\ e.verdict.is_anomaly)
        /\ e.verdict.anomaly_type \in {"NORMAL", "UNKNOWN_SENSOR"} => e.puts = 0

C13_Witness ==
    /\ \E e \in consumer.log : e.puts = 1 /\ e.verdict.is_anomaly
    /\ \E e \in consumer.log : e.puts = 0 /\ e.verdict.anomaly_type = "NORMAL"
    /\ \E e \in consumer.log : e.puts = 0 /\ e.verdict.anomaly_type = "UNKNOWN_SENSOR"

MaxTick == 15
\* At most this many publish calls time out.
MaxFailures == 1

S_cooling_failure ==
    <<"c", "o", "o", "l", "i", "n", "g", "_", "f", "a", "i", "l", "u", "r", "e">>

\* A mutant of FREQ: the cadences of temperature and current exchanged.
FREQ_swapped == [freq_mpu |-> 1, freq_temp |-> 10, freq_current |-> 15, freq_sound |-> 5]

\* The publish frequencies of device_state.
FREQ == [freq_mpu |-> 1, freq_temp |-> 15, freq_current |-> 10, freq_sound |-> 5]

\* simulate_temperature(temp_c, fault) in thousandths of a degree; target is
\* the uniform draw of the normal mode, up is the direction in which round()
\* resolves the binary value of temp_c + 0.075.
simulate_temperature(temp_c, fault, target, up) ==
    IF fault = S_overheating THEN temp_c + 150
    ELSE IF fault = S_cooling_failure THEN temp_c + (IF up THEN 80 ELSE 70)
    ELSE 10 * RoundDiv(temp_c * 100 + (target - temp_c) * 5, 1000)

\* The uniform draws of the normal mode that the model follows.
TempTargets == {28000, 45000}

\* The record kept of one call of publishSensorTelemetry.
NewTick(n) ==
    [n |-> n, emitted |-> <<>>, failed |-> FALSE, reported |-> FALSE,
     temp_steps |-> 0, done |-> FALSE]

\* The payload of one sensor block.
SimPayload(sensor, n, fault_state, value) ==
    [sensor |-> sensor, loopCount |-> n, fault_state |-> fault_state, value |-> value]

SimInit ==
    /\ \E mf \in {S_normal, S_bearing_wear},
          tf \in {S_normal, S_overheating, S_cooling_failure} :
          sim = [pc |-> "loop", loopCount |-> 0, n |-> 0, failures |-> 0,
                 device_state |-> [temp_c |-> 30000, mpu_fault |-> mf,
                                   temp_fault |-> tf, current_fault |-> S_normal,
                                   sound_fault |-> S_normal,
                                   freq_mpu |-> FREQ.freq_mpu,
                                   freq_temp |-> FREQ.freq_temp,
                                   freq_current |-> FREQ.freq_current,
                                   freq_sound |-> FREQ.freq_sound],
                 started |-> [mpu_fault |-> mf, temp_fault |-> tf,
                              current_fault |-> S_normal, sound_fault |-> S_normal],
                 ticks |-> <<>>]
    /\ readings = EmptyDict
    /\ verdict = NoVerdict
    /\ put = NoPut
    /\ pc = "simulator"
    /\ consumer = ConsumerIdle
    /\ pub = PubIdle
    /\ models = ModelsIdle
    /\ mongo = MongoIdle

\* The tick in flight or last run.
CurTick == sim.ticks[Len(sim.ticks)]

\* The outcomes of myAWSIoTMQTTClient.publish: it returns, or it raises
\* publishTimeoutException.
PublishOutcomes == IF sim.failures < MaxFailures THEN {"ok", "timeout"} ELSE {"ok"}

\* One sensor block of publishSensorTelemetry: when the tick is due, the
\* state is st and the payload is published; a timeout leaves the function
\* through its except clause, which prints the report.
SensorBlock(due, st, payload, temp_step, next_pc) ==
    IF ~due
    THEN sim' = [sim EXCEPT !.pc = next_pc,
                            !.ticks[Len(sim.ticks)].done = (next_pc = "loop")]
    ELSE \E outcome \in PublishOutcomes :
            IF outcome = "ok"
            THEN sim' = [sim EXCEPT !.pc = next_pc, !.device_state = st,
                                    !.ticks[Len(sim.ticks)].emitted = Append(@, payload),
                                    !.ticks[Len(sim.ticks)].temp_steps = @ + temp_step,
                                    !.ticks[Len(sim.ticks)].done = (next_pc = "loop")]
            ELSE sim' = [sim EXCEPT !.pc = "loop", !.device_state = st,
                                    !.failures = @ + 1,
                                    !.ticks[Len(sim.ticks)].failed = TRUE,
                                    !.ticks[Len(sim.ticks)].reported = TRUE,
                                    !.ticks[Len(sim.ticks)].temp_steps = @ + temp_step,
                                    !.ticks[Len(sim.ticks)].done = TRUE]

\* scheduler.enterabs(now + loopCount, 1, publishSensorTelemetry, (loopCount,));
\* loopCount += 1; scheduler.run() enters the function.
Schedule ==
    /\ sim.pc = "loop"
    /\ sim.loopCount <= MaxTick
    /\ sim' = [sim EXCEPT !.pc = "mpu", !.n = sim.loopCount, !.loopCount = @ + 1,
                          !.ticks = Append(@, NewTick(sim.loopCount))]
    /\ UNCHANGED <<readings, verdict, put, pc, consumer, pub, models, mongo>>

PublishMPU6050 ==
    /\ sim.pc = "mpu"
    /\ SensorBlock(sim.n % sim.device_state.freq_mpu = 0, sim.device_state,
                   SimPayload("MPU6050", sim.n, sim.device_state.mpu_fault, 0),
                   0, "temp")
    /\ UNCHANGED <<readings, verdict, put, pc, consumer, pub, models, mongo>>

PublishDS18B20 ==
    /\ sim.pc = "temp"
    /\ \E target \in TempTargets, up \in BOOLEAN :
          LET temp_c == simulate_temperature(sim.device_state.temp_c,
                                             sim.device_state.temp_fault, target, up)
          IN  SensorBlock(sim.n % sim.device_state.freq_temp = 0,
                          [sim.device_state EXCEPT !.temp_c = temp_c],
                          SimPayload("DS18B20", sim.n, sim.device_state.temp_fault, temp_c),
                          1, "current")
    /\ UNCHANGED <<readings, verdict, put, pc, consumer, pub, models, mongo>>

PublishSCT013 ==
    /\ sim.pc = "current"
    /\ SensorBlock(sim.n % sim.device_state.freq_current = 0, sim.device_state,
                   SimPayload("SCT-013", sim.n, sim.device_state.current_fault, 0),
                   0, "sound")
    /\ UNCHANGED <<readings, verdict, put, pc, consumer, pub, models, mongo>>

PublishINMP441 ==
    /\ sim.pc = "sound"
    /\ SensorBlock(sim.n % sim.device_state.freq_sound = 0, sim.device_state,
                   SimPayload("INMP441", sim.n, sim.device_state.sound_fault, 0),
                   0, "loop")
    /\ UNCHANGED <<readings, verdict, put, pc, consumer, pub, models, mongo>>

\* KeyboardInterrupt reaches the main thread, wherever it is: it is not a
\* publishTimeoutException, so it leaves publishSensorTelemetry and
\* scheduler.run() and is caught by the except clause around the loop.
KeyboardInterrupt ==
    /\ sim.pc \in {"loop", "mpu", "temp", "current", "sound"}
    /\ sim' = [sim EXCEPT !.pc = "stopped"]
    /\ UNCHANGED <<readings, verdict, put, pc, consumer, pub, models, mongo>>

\* myAWSIoTMQTTClient.disconnect()
Disconnect ==
    /\ sim.pc = "stopped"
    /\ sim' = [sim EXCEPT !.pc = "closed"]
    /\ UNCHANGED <<readings, verdict, put, pc, consumer, pub, models, mongo>>

SimNext ==
    \/ Schedule
    \/ PublishMPU6050
    \/ PublishDS18B20
    \/ PublishSCT013
    \/ PublishINMP441
    \/ KeyboardInterrupt
    \/ Disconnect

SimSpec == SimInit /\ [][SimNext]_vars

(***************************************************************************)
(* C17.  In publishSensorTelemetry a reading of a sensor is emitted on     *)
(* tick n only if n is divisible by the sensor's cadence (MPU6050 1,       *)
(* INMP441 5, SCT-013 10, DS18B20 15), at most once per tick, and on every *)
(* such tick that ran to its end with no publish call failing; the ticks   *)
(* run with n = 0, 1, 2, ... in order, none skipped or repeated.           *)
(***************************************************************************)
Cadence == [x \in {"MPU6050", "INMP441", "SCT-013", "DS18B20"} |->
               CASE x = "MPU6050" -> 1 [] x = "INMP441" -> 5
                 [] x = "SCT-013" -> 10 [] x = "DS18B20" -> 15]

\* The sensors due on tick n.
Due(n) == {x \in DOMAIN Cadence : n % Cadence[x] = 0}

\* The sensors of the readings a tick emitted.
EmittedSensors(tick) == {tick.emitted[i].sensor : i \in DOMAIN tick.emitted}

C17_SchedulerCadence ==
    sim.pc # "idle" =>
        \A k \in DOMAIN sim.ticks :
            LET tick == sim.ticks[k]
            IN  /\ tick.n = k - 1
                /\ EmittedSensors(tick) \subseteq Due(tick.n)
                /\ Cardinality(EmittedSensors(tick)) = Len(tick.emitted)
                /\ \A i \in DOMAIN tick.emitted : tick.emitted[i].loopCount = tick.n
                /\ (tick.done /\ ~tick.failed) => EmittedSensors(tick) = Due(tick.n)

C17_Witness ==
    /\ sim.pc = "loop"
    /\ Len(sim.ticks) = 16
    /\ sim.ticks[2].done /\ EmittedSensors(sim.ticks[2]) = {"MPU6050"}
    /\ sim.ticks[11].done /\ EmittedSensors(sim.ticks[11]) = {"MPU6050", "SCT-013", "INMP441"}
    /\ sim.ticks[16].done /\ EmittedSensors(sim.ticks[16]) = {"MPU6050", "DS18B20", "INMP441"}

(***************************************************************************)
(* C18.  When a publish call of tick n fails, the temperature integration  *)
(* due on tick n is still applied exactly once, the fault modes are        *)
(* unchanged, the failure is reported, and the loop goes on to tick n+1.   *)
(***************************************************************************)
Faults(device_state) ==
    [mpu_fault |-> device_state.mpu_fault, temp_fault |-> device_state.temp_fault,
     current_fault |-> device_state.current_fault,
     sound_fault |-> device_state.sound_fault]

C18_PublishFailureKeepsState ==
    sim.pc # "idle" =>
        \A k \in DOMAIN sim.ticks :
            LET tick == sim.ticks[k]
            IN  (tick.failed /\ tick.done) =>
                    /\ tick.temp_steps = IF "DS18B20" \in Due(tick.n) THEN 1 ELSE 0
                    /\ Faults(sim.device_state) = sim.started
                    /\ tick.reported
                    /\ (k = Len(sim.ticks) => sim.pc \in {"loop", "stopped", "closed"})

(***************************************************************************)
(* C19.  When KeyboardInterrupt arrives, the loop ends, and of the tick    *)
(* that was in flight either every reading due has been emitted or none;   *)
(* nothing is emitted after the stop.                                      *)
(***************************************************************************)
C19_CleanCancellation ==
    (sim.pc \in {"stopped", "closed"} /\ sim.ticks # <<>>) =>
        \/ EmittedSensors(CurTick) = {}
        \/ EmittedSensors(CurTick) = Due(CurTick.n)

(***************************************************************************)
(* main of publisher_simulator: the publishing loop of the main thread,    *)
(* and on_message, which the network thread started by client.loop_start() *)
(* runs when a command arrives.  pub.pc is the position of the main thread *)
(* in the pass over the devices: "for" before a device is taken, then      *)
(* "temp", "vib", "current", "sound", "payload" before the statement that  *)
(* bears that name.                                                        *)
(***************************************************************************)
\* At most this many passes over the devices.
MaxPasses == 1
\* At most this many commands arrive.
MaxCommands == 1

\* cfg["devices"], in the order of state.items().
DeviceOrder == <<"device_01", "device_02">>

\* cfg["temperature_model"]; config.json is read at start and is not part of
\* the sources, these are the values the model runs with.
TempCfg == [rise_rate_c_per_sec |-> 50, normal_min_c |-> 28000,
            normal_max_c |-> 45000, ambient_c |-> 30000]

\* simulate_temperature(state, temp, cfg) of publisher_simulator, in
\* thousandths of a degree, rounded to hundredths.
pub_simulate_temperature(state, temp, cfg, target) ==
    IF state = S_overheating THEN 10 * RoundDiv(temp + cfg.rise_rate_c_per_sec, 10)
    ELSE IF state = S_cooling_failure
    THEN 10 * RoundDiv(temp * 10 + cfg.rise_rate_c_per_sec * 6, 100)
    ELSE 10 * RoundDiv(temp * 100 + (target - temp) * 5, 1000)

\* cfg["rpm_drift"]; config.json is not part of the sources, these are the
\* values the model runs with (rpm in thousandths).
RpmDriftCfg == [drift_percent |-> 2, jitter_rpm |-> 5000]

\* The draws of one call of apply_rpm_drift: the sign of the sine at elapsed
\* and the jitter out of uniform(-jitter_rpm, jitter_rpm).
RpmDraws == {[phase |-> -1, jitter |-> -RpmDriftCfg.jitter_rpm],
             [phase |-> 1, jitter |-> RpmDriftCfg.jitter_rpm]}

Max(a, b) == IF a >= b THEN a ELSE b

\* apply_rpm_drift without the floor at zero.
apply_rpm_drift_unfloored(base, draw, cfg) ==
    base + draw.phase * ((base * cfg.drift_percent) \div 100) + draw.jitter

\* apply_rpm_drift(base, elapsed, cfg): max(0, base + drift + jitter).
apply_rpm_drift(base, draw, cfg) ==
    Max(0, base + draw.phase * ((base * cfg.drift_percent) \div 100) + draw.jitter)

\* d["topic_cmd"] of a device of cfg["devices"].
TopicCmd(did) == <<"cmd", did>>

\* The entry of state for one device of cfg["devices"].
DeviceEntry(did, rpm, mode, temp_fault) ==
    [rpm |-> rpm, mode |-> mode, temp_fault |-> temp_fault,
     current_fault |-> S_normal, sound_fault |-> S_normal,
     temp |-> TempCfg.ambient_c, topic_cmd |-> TopicCmd(did)]

\* The part of a device's entry that on_message can write.
Commanded(st) ==
    [rpm |-> st.rpm, mode |-> st.mode, temp_fault |-> st.temp_fault,
     current_fault |-> st.current_fault, sound_fault |-> st.sound_fault]

\* The commands that arrive: the keys a command carries, with their values.
Commands ==
    {[mode |-> S_bearing_wear],
     [temp_fault |-> S_overheating],
     [rpm |-> 0, current_fault |-> S_normal],
     [mode |-> S_normal, sound_fault |-> S_grinding]}

\* on_message storing the whole command: a key the command lacks is cleared.
apply_command_whole(st, cmd) ==
    [k \in DOMAIN st |->
        IF k \in {"mode", "temp_fault", "current_fault", "sound_fault"}
        THEN (IF k \in DOMAIN cmd THEN cmd[k] ELSE S_normal)
        ELSE IF k = "rpm" THEN (IF k \in DOMAIN cmd THEN cmd[k] ELSE 0)
        ELSE st[k]]

\* The body of on_message for the device whose topic_cmd matches: every key
\* of cmd that is one of the five is stored.
apply_command(st, cmd) ==
    [k \in DOMAIN st |->
        IF k \in DOMAIN cmd /\ k \in {"mode", "rpm", "temp_fault", "current_fault",
                                      "sound_fault"}
        THEN cmd[k] ELSE st[k]]

\* The locals of one pass of the for body: rpm_now and how often it was
\* computed, and the arguments each signal model was called with.
NoLocals ==
    [rpm_now |-> 0, rpm_calls |-> 0, temp_fault |-> <<>>,
     vib |-> [mode |-> <<>>, rpm |-> 0],
     current |-> [fault |-> <<>>, rpm |-> 0],
     sound |-> [fault |-> <<>>, health_of |-> [mode |-> <<>>, rpm |-> 0]]]

NoCommand == [topic |-> <<>>, cmd |-> <<>>]

PubInit ==
    /\ pub = [pc |-> "for", passes |-> 0, i |-> 1,
              state |-> [d \in {DeviceOrder[k] : k \in DOMAIN DeviceOrder} |->
                            DeviceEntry(d, 1450000, S_normal, S_normal)],
              at_start |-> Commanded(DeviceEntry("", 1450000, S_normal, S_normal)),
              locals |-> NoLocals, commands |-> 0, last |-> NoCommand, out |-> <<>>]
    /\ readings = EmptyDict
    /\ verdict = NoVerdict
    /\ put = NoPut
    /\ pc = "publisher"
    /\ consumer = ConsumerIdle
    /\ sim = SimIdle
    /\ models = ModelsIdle
    /\ mongo = MongoIdle

\* The device the main thread is working on.
Did == DeviceOrder[pub.i]

\* The main thread is between the first read of st and the publish.
InTick == pub.pc \in {"temp", "vib", "current", "sound", "payload"}

\* for did, st in state.items(): rpm_now = apply_rpm_drift(st["rpm"], ...)
ApplyRpmDrift ==
    /\ pub.pc = "for"
    /\ pub.passes < MaxPasses
    /\ pub.i <= Len(DeviceOrder)
    /\ \E draw \in RpmDraws :
          pub' = [pub EXCEPT !.pc = "temp",
                     !.at_start = Commanded(pub.state[Did]),
                     !.locals = [NoLocals EXCEPT
                         !.rpm_now = apply_rpm_drift(pub.state[Did].rpm, draw, RpmDriftCfg),
                         !.rpm_calls = 1]]
    /\ UNCHANGED <<readings, verdict, put, pc, consumer, sim, models, mongo>>

\* st["temp"] = simulate_temperature(st["temp_fault"], st["temp"], temp_cfg)
SimulateTemperature ==
    /\ pub.pc = "temp"
    /\ \E target \in {TempCfg.normal_min_c, TempCfg.normal_max_c} :
          pub' = [pub EXCEPT !.pc = "vib",
                     !.locals.temp_fault = pub.state[Did].temp_fault,
                     !.state[Did].temp =
                         pub_simulate_temperature(pub.state[Did].temp_fault,
                                                  pub.state[Did].temp, TempCfg, target)]
    /\ UNCHANGED <<readings, verdict, put, pc, consumer, sim, models, mongo>>

\* vib = simulate_mpu6050(st["mode"], rpm_now, elapsed)
SimulateMpu6050 ==
    /\ pub.pc = "vib"
    /\ pub' = [pub EXCEPT !.pc = "current",
                          !.locals.vib = [mode |-> pub.state[Did].mode,
                                          rpm |-> pub.locals.rpm_now]]
    /\ UNCHANGED <<readings, verdict, put, pc, consumer, sim, models, mongo>>

\* current = simulate_current(st["current_fault"], rpm_now, curr_cfg)
SimulateCurrent ==
    /\ pub.pc = "current"
    /\ pub' = [pub EXCEPT !.pc = "sound",
                          !.locals.current = [fault |-> pub.state[Did].current_fault,
                                              rpm |-> pub.locals.rpm_now]]
    /\ UNCHANGED <<readings, verdict, put, pc, consumer, sim, models, mongo>>

\* sound = simulate_sound(st["sound_fault"], vib["health_score"], sound_cfg)
SimulateSound ==
    /\ pub.pc = "sound"
    /\ pub' = [pub EXCEPT !.pc = "payload",
                          !.locals.sound = [fault |-> pub.state[Did].sound_fault,
                                            health_of |-> pub.locals.vib]]
    /\ UNCHANGED <<readings, verdict, put, pc, consumer, sim, models, mongo>>

\* payload = {...}; client.publish(st["topic_pub"], json.dumps(payload), ...)
\* pub.out holds, for each device, the payload last published for it with the
\* locals it was built from.
PublishPayload ==
    /\ pub.pc = "payload"
    /\ LET st == pub.state[Did]
           payload ==
               [device_id |-> Did, rpm |-> 10 * RoundDiv(pub.locals.rpm_now, 10),
                mpu6050 |-> [fault_state |-> st.mode],
                ds18b20 |-> [temperature_c |-> st.temp, fault_state |-> st.temp_fault],
                sct013 |-> [fault_state |-> st.current_fault],
                inmp441 |-> [fault_state |-> pub.locals.sound.fault]]
       IN  pub' = [pub EXCEPT !.pc = "for", !.i = @ + 1,
                      !.out = (Did :> [payload |-> payload, passed |-> pub.locals]) @@ @]
    /\ UNCHANGED <<readings, verdict, put, pc, consumer, sim, models, mongo>>

\* time.sleep(cfg["publish_interval_sec"]) after the last device.
SleepInterval ==
    /\ pub.pc = "for"
    /\ pub.passes < MaxPasses
    /\ pub.i > Len(DeviceOrder)
    /\ pub' = [pub EXCEPT !.passes = @ + 1, !.i = 1]
    /\ UNCHANGED <<readings, verdict, put, pc, consumer, sim, models, mongo>>

\* on_message in the network thread, at any moment of the main thread: the
\* message comes on a subscribed topic, and every device whose topic_cmd is
\* that topic takes the command.
OnMessage ==
    /\ pub.pc # "idle"
    /\ pub.commands < MaxCommands
    /\ \E k \in DOMAIN DeviceOrder, cmd \in Commands :
          LET topic == pub.state[DeviceOrder[k]].topic_cmd
          IN  pub' = [pub EXCEPT !.commands = @ + 1,
                         !.last = [topic |-> topic, cmd |-> cmd],
                         !.state = [d \in DOMAIN pub.state |->
                                       IF topic = pub.state[d].topic_cmd
                                       THEN apply_command(pub.state[d], cmd)
                                       ELSE pub.state[d]]]
    /\ UNCHANGED <<readings, verdict, put, pc, consumer, sim, models, mongo>>

PubNext ==
    \/ ApplyRpmDrift
    \/ SimulateTemperature
    \/ SimulateMpu6050
    \/ SimulateCurrent
    \/ SimulateSound
    \/ PublishPayload
    \/ SleepInterval
    \/ OnMessage

PubSpec == PubInit /\ [][PubNext]_vars

(***************************************************************************)
(* C20.  While the main thread works on a device, from the first read of   *)
(* its entry to the publish, nothing else writes the entry: its RPM and    *)
(* fault modes are those the tick started with.                            *)
(***************************************************************************)
C20_NoConcurrentMutation ==
    (pub.pc # "idle" /\ InTick) => Commanded(pub.state[Did]) = pub.at_start

\* ---------------------------------------------------------------------------
\* Sensor dispatch against the sensor field
\* ---------------------------------------------------------------------------

\* The anomaly categories of each rule set, and NORMAL.
CategoriesOf(sensor) ==
    CASE sensor = S_MPU6050 ->
            {"NORMAL", "MPU6050_HIGH_VIBRATION", "MPU6050_LOW_HEALTH"}
      [] sensor = S_DS18B20 ->
            {"NORMAL", "DS18B20_LOW_TEMP", "DS18B20_HIGH_TEMP"}
      [] sensor \in {S_SCT_013, S_SCT013} ->
            {"NORMAL", "SCT013_LOW_CURRENT", "SCT013_HIGH_CURRENT"}
      [] sensor = S_INMP441 ->
            {"NORMAL", "INMP441_HIGH_DB", "INMP441_HIGH_RMS"}
      [] OTHER -> {"NORMAL"}

\* C26: a classified reading whose sensor is one of MPU6050, DS18B20, SCT-013
\* or INMP441 gets NORMAL or a category of that same sensor, whatever its
\* datatype field holds.
C26_DatatypeNeverReroutes ==
    (Classified /\ sensor_of(readings) \in KnownSensors) =>
        verdict.anomaly_type \in CategoriesOf(sensor_of(readings))

(***************************************************************************)
(* C25.  Every published payload labels its mpu6050, ds18b20 and sct013    *)
(* sections with the fault mode that was passed to the signal model that   *)
(* produced the section's measurement, also when a command is handled      *)
(* while the tick is being computed.                                       *)
(***************************************************************************)
C25_LabelMatchesMeasurement ==
    pub.pc # "idle" =>
        \A i \in DOMAIN pub.out :
            LET o == pub.out[i]
            IN  /\ o.payload.mpu6050.fault_state = o.passed.vib.mode
                /\ o.payload.ds18b20.fault_state = o.passed.temp_fault
                /\ o.payload.sct013.fault_state = o.passed.current.fault

(***************************************************************************)
(* C24.  A step of the publisher changes a device's entry only in these    *)
(* ways: the tick of a device changes that device's temp and nothing else; *)
(* the fault modes and the base RPM of a device change only in the step    *)
(* that handles a command on that device's command topic, and then only    *)
(* the keys the command contains change; every other device's entry stays  *)
(* as it was.                                                              *)
(***************************************************************************)
C24_FrameOfTickAndCommand ==
    [][pub.pc # "idle" =>
        \A d \in DOMAIN pub.state :
            LET a == pub.state[d]
                b == pub'.state[d]
                handled == pub'.commands = pub.commands + 1
            IN  /\ b.topic_cmd = a.topic_cmd
                /\ b.temp # a.temp =>
                       (~handled /\ pub.pc = "temp" /\ d = Did)
                /\ ~handled => Commanded(b) = Commanded(a)
                /\ handled =>
                       /\ b.temp = a.temp
                       /\ pub'.last.topic # a.topic_cmd => b = a
                       /\ \A k \in DOMAIN Commanded(a) :
                              b[k] # a[k] => k \in DOMAIN pub'.last.cmd]_vars

\* A command on device_01's topic has changed its mode, device_02 is as it
\* was configured, and both devices' ticks have run and moved their temp.
C24_Witness ==
    /\ pub.pc # "idle"
    /\ pub.commands = 1
    /\ pub.last.topic = TopicCmd("device_01")
    /\ pub.last.cmd = [mode |-> S_bearing_wear]
    /\ pub.state["device_01"].mode = S_bearing_wear
    /\ Commanded(pub.state["device_02"]) =
           Commanded(DeviceEntry("device_02", 1450000, S_normal, S_normal))
    /\ DOMAIN pub.out = DOMAIN pub.state
    /\ \A d \in DOMAIN pub.state : pub.state[d].temp # TempCfg.ambient_c

(***************************************************************************)
(* C23.  Within one device's tick the effective RPM is computed once, is   *)
(* at least 0, is the value passed to the vibration model and the current  *)
(* model, is the value the health score handed to the sound model was      *)
(* computed from, and is the rpm of the payload published for the tick.    *)
(***************************************************************************)
C23_SameTickRpm ==
    pub.pc # "idle" =>
        \A i \in DOMAIN pub.out :
            LET o == pub.out[i]
            IN  /\ o.passed.rpm_calls = 1
                /\ o.passed.rpm_now >= 0
                /\ o.passed.vib.rpm = o.passed.rpm_now
                /\ o.passed.current.rpm = o.passed.rpm_now
                /\ o.passed.sound.health_of.rpm = o.passed.rpm_now
                /\ o.payload.rpm = 10 * RoundDiv(o.passed.rpm_now, 10)

\* A payload published for a tick whose base RPM a command had set to 0 and
\* whose jitter was negative: the floor gave 0, and 0 went to the models.
C23_Witness ==
    /\ pub.pc # "idle"
    /\ \E i \in DOMAIN pub.out :
          /\ pub.state[pub.out[i].payload.device_id].rpm = 0
          /\ pub.out[i].payload.rpm = 0
          /\ pub.out[i].passed.vib.rpm = 0
          /\ pub.out[i].passed.current.rpm = 0

(***************************************************************************)
(* The signal models of the two simulators called on their own:            *)
(* simulate_current of aws_iot_sensor_simulator and of publisher_simulator *)
(* for one set of arguments and draws, and simulate_temperature of either  *)
(* simulator called tick after tick under overheating and, from the same   *)
(* start, under cooling_failure.  Amperes and degrees are in thousandths,  *)
(* rpm is in thousandths, the imbalance factor is in tenths.               *)
(***************************************************************************)
\* At most this many ticks of the temperature model.
MaxTempTicks == 3

S_overload == <<"o", "v", "e", "r", "l", "o", "a", "d">>
S_imbalance == <<"i", "m", "b", "a", "l", "a", "n", "c", "e">>

\* cfg["current_model"]; config.json is not part of the sources, the model
\* runs with the constants of the AWS simulator's simulate_current.
CurrCfg == [rated_current_a |-> 8000, overload_current_a |-> 13000, noise_a |-> 250]

\* round(x, 2) of the current num / 14500 thousandths of an ampere.
RoundCurrent(num) == 10 * RoundDiv(num, 145000)

\* simulate_current(rpm, fault) of aws_iot_sensor_simulator, for the draw
\* factor of uniform(1.2, 1.5) and the draw noise of uniform(-0.25, 0.25):
\* round(max(current, 0), 2).
simulate_current(rpm, fault, factor, noise) ==
    LET base == 8 * rpm * 10
        current == IF fault = S_overload THEN 13000 * 14500
                   ELSE IF fault = S_imbalance THEN 8 * rpm * factor
                   ELSE base
    IN  RoundCurrent(Max(current + noise * 14500, 0))

\* simulate_current(fault, rpm, cfg) of publisher_simulator, for the same
\* draws: round(current, 2).
pub_simulate_current(fault, rpm, cfg, factor, noise) ==
    LET base == (cfg.rated_current_a \div 1000) * rpm * 10
        current == IF fault = S_overload THEN cfg.overload_current_a * 14500
                   ELSE IF fault = S_imbalance
                   THEN (cfg.rated_current_a \div 1000) * rpm * factor
                   ELSE base
    IN  RoundCurrent(current + noise * 14500)

\* The arguments and draws the current model is called with.
Rpms == {0, 20000, 725000, 1450000}
CurrentFaults == {S_normal, S_overload, S_imbalance}
ImbalanceDraws == {12, 15}
NoiseDraws == {-CurrCfg.noise_a, 0, CurrCfg.noise_a}

\* cfg["temperature_model"]["rise_rate_c_per_sec"] of the configurations the
\* temperature model is run with.
RiseRates == {10, 50, 150}

NoCurrentCall == [called |-> FALSE, rpm |-> 0, fault |-> <<>>, noise |-> 0,
                  aws |-> 0, publisher |-> 0]

\* A run of the temperature model: prev and now are the last two outputs.
TempRun(temp) == [prev |-> temp, now |-> temp]

ModelsInit ==
    /\ \E simulator \in {"aws", "publisher"}, rise \in RiseRates :
          /\ simulator = "aws" => rise = 50
          /\ models = [pc |-> "models", simulator |-> simulator,
                       cfg |-> [TempCfg EXCEPT !.rise_rate_c_per_sec = rise],
                       over |-> TempRun(TempCfg.ambient_c),
                       cool |-> TempRun(TempCfg.ambient_c),
                       ticks |-> 0, current |-> NoCurrentCall]
    /\ readings = EmptyDict
    /\ verdict = NoVerdict
    /\ put = NoPut
    /\ pc = "models"
    /\ consumer = ConsumerIdle
    /\ sim = SimIdle
    /\ pub = PubIdle
    /\ mongo = MongoIdle

\* One call of simulate_temperature of the run's simulator.
TemperatureOf(simulator, fault, temp, cfg, target, up) ==
    IF simulator = "aws" THEN simulate_temperature(temp, fault, target, up)
    ELSE pub_simulate_temperature(fault, temp, cfg, target)

\* One tick: the temperature model is called on the overheating run and on
\* the cooling_failure run, each with its own draws.
TemperatureTick ==
    /\ models.pc = "models"
    /\ models.ticks < MaxTempTicks
    /\ \E t1 \in TempTargets, t2 \in TempTargets, up \in BOOLEAN :
          models' = [models EXCEPT
              !.ticks = @ + 1,
              !.over = [prev |-> @.now,
                        now |-> TemperatureOf(models.simulator, S_overheating, @.now,
                                              models.cfg, t1, up)],
              !.cool = [prev |-> @.now,
                        now |-> TemperatureOf(models.simulator, S_cooling_failure, @.now,
                                              models.cfg, t2, up)]]
    /\ UNCHANGED <<readings, verdict, put, pc, consumer, sim, pub, mongo>>

\* One call of simulate_current of both simulators with the same arguments
\* and draws.
SimulateCurrentCall ==
    /\ models.pc = "models"
    /\ \E rpm \in Rpms, fault \in CurrentFaults, factor \in ImbalanceDraws,
          noise \in NoiseDraws :
          models' = [models EXCEPT !.current =
              [called |-> TRUE, rpm |-> rpm, fault |-> fault, noise |-> noise,
               aws |-> simulate_current(rpm, fault, factor, noise),
               publisher |-> pub_simulate_current(fault, rpm, CurrCfg, factor, noise)]]
    /\ UNCHANGED <<readings, verdict, put, pc, consumer, sim, pub, mongo>>

ModelsNext ==
    \/ TemperatureTick
    \/ SimulateCurrentCall

ModelsSpec == ModelsInit /\ [][ModelsNext]_vars

(***************************************************************************)
(* C21.  simulate_current returns a value >= 0 in both simulators, for     *)
(* every RPM >= 0, every fault mode and every noise draw.                  *)
(***************************************************************************)
C21_CurrentNonNegative ==
    (models.pc # "idle" /\ models.current.called) =>
        /\ models.current.aws >= 0
        /\ models.current.publisher >= 0

(***************************************************************************)
(* C22.  Under a fixed fault mode the outputs of the temperature model     *)
(* over repeated ticks are non-decreasing under overheating and under      *)
(* cooling_failure, the increment of a cooling_failure tick is strictly    *)
(* smaller than the increment of an overheating tick, and the output of a  *)
(* fault branch does not depend on the random target.                      *)
(***************************************************************************)
C22_TemperatureUnderFault ==
    (models.pc # "idle" /\ models.ticks > 0) =>
        /\ models.over.now >= models.over.prev
        /\ models.cool.now >= models.cool.prev
        /\ models.cool.now - models.cool.prev < models.over.now - models.over.prev
        /\ \A fault \in {S_overheating, S_cooling_failure}, up \in BOOLEAN :
              \A t1 \in TempTargets, t2 \in TempTargets :
                  TemperatureOf(models.simulator, fault, models.over.now,
                                models.cfg, t1, up) =
                  TemperatureOf(models.simulator, fault, models.over.now,
                                models.cfg, t2, up)

(***************************************************************************)
(* mqtt_to_mongo: main connects the MongoSink once, then loop_forever      *)
(* calls on_message for each MQTT message, in the one thread of the        *)
(* program.  mongo.sink holds the sink's client and collection ("None"     *)
(* while unset); mongo.log has one entry for the connect of main and one   *)
(* for each message handled.                                               *)
(***************************************************************************)
\* At most this many messages arrive.
MaxMessages == 3

\* MongoSink.__init__: client and collection unset.
NewSink == [client |-> "None", collection |-> "None"]

\* What MongoClient(...) / admin.command("ping") does in connect, and what
\* collection.insert_one does.
ConnectOutcomes == {"ok", "ServerSelectionTimeoutError"}
InsertOneOutcomes == {"ok", "ServerSelectionTimeoutError", "OperationFailure"}

\* The payload of a message: bytes that are not JSON, a JSON object, a JSON
\* array.
MessageKinds == {"invalid_json", "object", "array"}

\* connect storing the collection before the ping is answered.
connect_before_ping(sink, outcome) ==
    [sink |-> [client |-> "MongoClient", collection |-> "Collection"],
     raised |-> IF outcome = "ok" THEN "none" ELSE outcome]

\* MongoSink.connect: the client is stored, the ping raises or not, and the
\* collection is stored after a ping that was answered.
connect(sink, outcome) ==
    IF outcome = "ok"
    THEN [sink |-> [client |-> "MongoClient", collection |-> "Collection"],
          raised |-> "none"]
    ELSE [sink |-> [client |-> "MongoClient", collection |-> sink.collection],
          raised |-> outcome]

\* MongoSink.insert: connect when the collection is unset, then insert_one on
\* the collection.  insert_one_on is the collection insert_one was called on,
\* "not_called" when an exception of connect left insert before the call.
insert(sink, connect_outcome, insert_one_outcome) ==
    LET attempted == sink.collection = "None"
        c == IF attempted THEN connect(sink, connect_outcome)
             ELSE [sink |-> sink, raised |-> "none"]
    IN  IF c.raised # "none"
        THEN [sink |-> c.sink, connect_attempted |-> TRUE, connect_raised |-> TRUE,
              insert_one_on |-> "not_called", raised |-> c.raised]
        ELSE [sink |-> c.sink, connect_attempted |-> attempted, connect_raised |-> FALSE,
              insert_one_on |-> c.sink.collection,
              raised |-> IF insert_one_outcome = "ok" THEN "none"
                         ELSE insert_one_outcome]

\* An entry of mongo.log: what one run of the connect of main or of
\* on_message did.  escaped is the exception that left the handler.
MongoEntry(kind, before, r, escaped) ==
    [kind |-> kind, before |-> before, after |-> r.sink.collection,
     connect_attempted |-> r.connect_attempted, connect_raised |-> r.connect_raised,
     insert_one_on |-> r.insert_one_on, raised |-> r.raised, escaped |-> escaped]

\* A handler run that did not reach mongo.insert.
NoInsert(sink) ==
    [sink |-> sink, connect_attempted |-> FALSE, connect_raised |-> FALSE,
     insert_one_on |-> "not_called", raised |-> "none"]

MongoInit ==
    /\ mongo = [pc |-> "main", sink |-> NewSink, log |-> <<>>]
    /\ readings = EmptyDict
    /\ verdict = NoVerdict
    /\ put = NoPut
    /\ pc = "mqtt_to_mongo"
    /\ consumer = ConsumerIdle
    /\ sim = SimIdle
    /\ pub = PubIdle
    /\ models = ModelsIdle

\* main: try: mongo.connect() except Exception: "Will retry on first insert".
MainConnect ==
    /\ mongo.pc = "main"
    /\ \E outcome \in ConnectOutcomes :
          LET c == connect(mongo.sink, outcome)
              r == [sink |-> c.sink, connect_attempted |-> TRUE,
                    connect_raised |-> c.raised # "none",
                    insert_one_on |-> "not_called", raised |-> c.raised]
          IN  mongo' = [mongo EXCEPT !.pc = "loop_forever", !.sink = c.sink,
                           !.log = Append(@, MongoEntry("main", mongo.sink.collection,
                                                        r, "none"))]
    /\ UNCHANGED <<readings, verdict, put, pc, consumer, sim, pub, models>>

\* on_message for one message: invalid JSON returns; building doc from a
\* payload that is not a mapping raises TypeError outside the try and ends
\* loop_forever; otherwise mongo.insert(doc) runs inside try/except Exception.
MongoOnMessage ==
    /\ mongo.pc = "loop_forever"
    /\ Len(mongo.log) <= MaxMessages
    /\ \E kind \in MessageKinds, co \in ConnectOutcomes, io \in InsertOneOutcomes :
          LET before == mongo.sink.collection
              r == IF kind = "object" THEN insert(mongo.sink, co, io)
                   ELSE NoInsert(mongo.sink)
              escaped == IF kind = "array" THEN "TypeError" ELSE "none"
          IN  mongo' = [mongo EXCEPT
                           !.pc = IF escaped = "none" THEN "loop_forever" ELSE "raised",
                           !.sink = r.sink,
                           !.log = Append(@, MongoEntry(kind, before, r, escaped))]
    /\ UNCHANGED <<readings, verdict, put, pc, consumer, sim, pub, models>>

MongoNext ==
    \/ MainConnect
    \/ MongoOnMessage

MongoSpec == MongoInit /\ [][MongoNext]_vars

(***************************************************************************)
(* C27.  insert_one is never called while the sink's collection is unset;  *)
(* while no connect has succeeded every insert first attempts connect; a   *)
(* failed attempt leaves the collection unset, does not reach insert_one,  *)
(* does not leave on_message (the loop goes on, and the next insert        *)
(* attempts connect again); once a connect has succeeded insert attempts   *)
(* no further connect.                                                     *)
(***************************************************************************)
C27_LazyConnectRetry ==
    mongo.pc # "idle" =>
        \A i \in DOMAIN mongo.log :
            LET e == mongo.log[i]
            IN  /\ e.insert_one_on # "not_called" => e.insert_one_on = "Collection"
                /\ (e.kind = "object" /\ e.before = "None") => e.connect_attempted
                /\ e.connect_raised =>
                       /\ e.after = "None"
                       /\ e.insert_one_on = "not_called"
                       /\ e.escaped = "none"
                       /\ (i = Len(mongo.log) =>
                              /\ mongo.pc = "loop_forever"
                              /\ mongo.sink.collection = "None")
                /\ i > 1 => e.before = mongo.log[i - 1].after
                /\ \A j \in DOMAIN mongo.log :
                       (j < i /\ mongo.log[j].connect_attempted
                              /\ ~mongo.log[j].connect_raised) =>
                           ~e.connect_attempted

\* The connect of main failed, the insert of the first message attempted
\* connect and failed again, the insert of the second attempted it and
\* succeeded and called insert_one, and the insert of the third called
\* insert_one without connecting.
C27_Witness ==
    /\ mongo.pc = "loop_forever"
    /\ Len(mongo.log) = 4
    /\ mongo.log[1].kind = "main" /\ mongo.log[1].connect_raised
    /\ mongo.log[2].kind = "object" /\ mongo.log[2].connect_raised
    /\ mongo.log[3].kind = "object" /\ mongo.log[3].connect_attempted
    /\ mongo.log[3].insert_one_on = "Collection"
    /\ mongo.log[4].kind = "object" /\ ~mongo.log[4].connect_attempted
    /\ mongo.log[4].insert_one_on = "Collection"

====
